---------------------------- MODULE Spec2Model ----------------------------
(***************************************************************************)
(* Music-Link-Convertor: the track resolution engine of server.js.         *)
(*                                                                         *)
(* Two builds of the server are in the repository: the one embedded in     *)
(* DEPLOYMENT.md (multi-artist scorer, six queries, /convert-single) and   *)
(* the one in server.js from line 302 on (single-artist scorer, four       *)
(* queries).  The variable `build` says which one a behaviour runs.        *)
(*                                                                         *)
(* A JavaScript string is a sequence of one-character strings.  A score    *)
(* (a JavaScript double) is an exact fraction <<n, d>> in lowest terms.    *)
(***************************************************************************)
EXTENDS Integers, Sequences, FiniteSets, TLC

(***************************************************************************)
(* Characters                                                              *)
(***************************************************************************)
UpperSeq ==
    <<"A", "B", "C", "D", "E", "F", "G", "H", "I", "J", "K", "L", "M",
      "N", "O", "P", "Q", "R", "S", "T", "U", "V", "W", "X", "Y", "Z">>

LowerSeq ==
    <<"a", "b", "c", "d", "e", "f", "g", "h", "i", "j", "k", "l", "m",
      "n", "o", "p", "q", "r", "s", "t", "u", "v", "w", "x", "y", "z">>

DigitChars == {"0", "1", "2", "3", "4", "5", "6", "7", "8", "9"}

\* a letter outside ASCII, as the name of its code point: capital and small
\* e with acute
NonAsciiUpper == "U+00C9"
NonAsciiLower == "U+00E9"

\* one character through String.prototype.toLowerCase
UpperChars == {UpperSeq[i] : i \in 1..Len(UpperSeq)}

lowerChar(c) ==
    IF c \in UpperChars
    THEN LowerSeq[CHOOSE i \in 1..Len(UpperSeq) : UpperSeq[i] = c]
    ELSE IF c = NonAsciiUpper THEN NonAsciiLower ELSE c

\* \w of a JavaScript regular expression without the u flag: [A-Za-z0-9_]
WordChars ==
    UpperChars \cup {LowerSeq[i] : i \in 1..Len(LowerSeq)} \cup DigitChars \cup {"_"}

\* \s
SpaceChars == {" ", "\t"}

IsWordChar(c) == c \in WordChars
IsSpaceChar(c) == c \in SpaceChars

Min(a, b) == IF a <= b THEN a ELSE b
Max(a, b) == IF a >= b THEN a ELSE b

(***************************************************************************)
(* Strings and arrays                                                      *)
(***************************************************************************)
toLowerCase(str) == [i \in 1..Len(str) |-> lowerChar(str[i])]

RECURSIVE trimStart(_)
trimStart(str) ==
    IF str # <<>> /\ IsSpaceChar(Head(str)) THEN trimStart(Tail(str)) ELSE str

RECURSIVE trimEnd(_)
trimEnd(str) ==
    IF str # <<>> /\ IsSpaceChar(str[Len(str)])
    THEN trimEnd(SubSeq(str, 1, Len(str) - 1))
    ELSE str

trim(str) == trimEnd(trimStart(str))

\* str.includes(sub)
includes(str, sub) ==
    \E i \in 0..(Len(str) - Len(sub)) : SubSeq(str, i + 1, i + Len(sub)) = sub

\* array.includes(x)
arrayIncludes(arr, x) == \E k \in 1..Len(arr) : arr[k] = x

\* arr1.filter(x => arr2.includes(x)).length
commonCount(arr1, arr2) == Len(SelectSeq(arr1, LAMBDA x : arrayIncludes(arr2, x)))

\* array.slice(0, n)
slice0(arr, n) == SubSeq(arr, 1, Min(n, Len(arr)))

\* array.join(sep)
RECURSIVE join(_, _)
join(arr, sep) ==
    IF arr = <<>> THEN <<>>
    ELSE IF Len(arr) = 1 THEN arr[1]
    ELSE arr[1] \o sep \o join(Tail(arr), sep)

\* the first index >= i of str that holds no white space (Len(str) + 1 if none)
RECURSIVE skipSpaces(_, _)
skipSpaces(str, i) ==
    IF i <= Len(str) /\ IsSpaceChar(str[i]) THEN skipSpaces(str, i + 1) ELSE i

\* str.split(/\s+/), from index i with the field `cur` open
RECURSIVE splitWordsFrom(_, _, _)
splitWordsFrom(str, i, cur) ==
    IF i > Len(str) THEN <<cur>>
    ELSE IF IsSpaceChar(str[i])
         THEN <<cur>> \o splitWordsFrom(str, skipSpaces(str, i), <<>>)
         ELSE splitWordsFrom(str, i + 1, Append(cur, str[i]))

splitWords(str) == splitWordsFrom(str, 1, <<>>)

\* \sand\s matches at index i of str
andAt(str, i) ==
    /\ i + 4 <= Len(str)
    /\ IsSpaceChar(str[i])
    /\ str[i + 1] = "a"
    /\ str[i + 2] = "n"
    /\ str[i + 3] = "d"
    /\ IsSpaceChar(str[i + 4])

\* str.split(/[,&]|\sand\s/), from index i with the field `cur` open
RECURSIVE splitSepFrom(_, _, _)
splitSepFrom(str, i, cur) ==
    IF i > Len(str) THEN <<cur>>
    ELSE IF str[i] \in {",", "&"}
         THEN <<cur>> \o splitSepFrom(str, i + 1, <<>>)
         ELSE IF andAt(str, i)
              THEN <<cur>> \o splitSepFrom(str, i + 5, <<>>)
              ELSE splitSepFrom(str, i + 1, Append(cur, str[i]))

splitSep(str) == splitSepFrom(str, 1, <<>>)

(***************************************************************************)
(* Fractions                                                               *)
(***************************************************************************)
RECURSIVE GCD(_, _)
GCD(a, b) == IF b = 0 THEN a ELSE GCD(b, a % b)

Frac(n, d) == LET g == GCD(n, d) IN IF n = 0 THEN <<0, 1>> ELSE <<n \div g, d \div g>>

FMul(p, q) == Frac(p[1] * q[1], p[2] * q[2])
FAdd(p, q) == Frac(p[1] * q[2] + q[1] * p[2], p[2] * q[2])
FLess(p, q) == p[1] * q[2] < q[1] * p[2]
FLeq(p, q) == p[1] * q[2] <= q[1] * p[2]
FMin(p, q) == IF FLess(q, p) THEN q ELSE p
FMax(p, q) == IF FLess(p, q) THEN q ELSE p

Zero == <<0, 1>>
One == <<1, 1>>

(***************************************************************************)
(* calculateMatchScore                                                     *)
(***************************************************************************)
\* normalize with the trim ahead of the replace
normalizeTrimFirst(str) ==
    SelectSeq(trim(toLowerCase(str)), LAMBDA c : IsWordChar(c) \/ IsSpaceChar(c))

\* normalize without toLowerCase
normalizeKeepsCase(str) ==
    trim(SelectSeq(str, LAMBDA c : IsWordChar(c) \/ IsSpaceChar(c)))

\* const normalize = (str) => str.toLowerCase().replace(/[^\w\s]/g, '').trim()
normalize(str) ==
    trim(SelectSeq(toLowerCase(str), LAMBDA c : IsWordChar(c) \/ IsSpaceChar(c)))

\* splitArtists without the filter of the empty fragments
splitArtistsUnfiltered(artistName) ==
    LET parts == splitSep(artistName)
    IN [k \in 1..Len(parts) |-> normalize(trim(parts[k]))]

\* artistName.split(/[,&]|\sand\s/).map(a => normalize(a.trim())).filter(a => a)
splitArtists(artistName) ==
    LET parts == splitSep(artistName)
        normed == [k \in 1..Len(parts) |-> normalize(trim(parts[k]))]
    IN SelectSeq(normed, LAMBDA a : a # <<>>)

\* words1.filter(word => words2.includes(word)).length / max(len1, len2) * 0.6
wordOverlap(words1, words2) ==
    LET common == commonCount(words1, words2)
    IN IF Len(words1) > 0 /\ Len(words2) > 0
       THEN FMul(Frac(common, Max(Len(words1), Len(words2))), Frac(3, 5))
       ELSE Zero

\* the title component with the containment test in one direction only
trackScoreOneWay(normalizedTrack1, normalizedTrack2) ==
    LET base ==
            IF normalizedTrack1 = normalizedTrack2 THEN One
            ELSE IF includes(normalizedTrack1, normalizedTrack2)
                 THEN Frac(4, 5)
                 ELSE wordOverlap(splitWords(normalizedTrack1),
                                  splitWords(normalizedTrack2))
        coreWords1 == slice0(splitWords(normalizedTrack1), 3)
        coreWords2 == slice0(splitWords(normalizedTrack2), 3)
        coreMatch ==
            /\ \E k \in 1..Len(coreWords1) : arrayIncludes(coreWords2, coreWords1[k])
            /\ \E k \in 1..Len(coreWords2) : arrayIncludes(coreWords1, coreWords2[k])
    IN IF coreMatch /\ FLess(base, Frac(3, 5)) THEN FMax(base, Frac(3, 5)) ELSE base

\* the title component, core-word boost included
trackScoreOf(normalizedTrack1, normalizedTrack2) ==
    LET base ==
            IF normalizedTrack1 = normalizedTrack2 THEN One
            ELSE IF \/ includes(normalizedTrack1, normalizedTrack2)
                    \/ includes(normalizedTrack2, normalizedTrack1)
                 THEN Frac(4, 5)
                 ELSE wordOverlap(splitWords(normalizedTrack1),
                                  splitWords(normalizedTrack2))
        coreWords1 == slice0(splitWords(normalizedTrack1), 3)
        coreWords2 == slice0(splitWords(normalizedTrack2), 3)
        coreMatch ==
            /\ \E k \in 1..Len(coreWords1) : arrayIncludes(coreWords2, coreWords1[k])
            /\ \E k \in 1..Len(coreWords2) : arrayIncludes(coreWords1, coreWords2[k])
    IN IF coreMatch /\ FLess(base, Frac(3, 5)) THEN FMax(base, Frac(3, 5)) ELSE base

\* artistScoreOf without the Math.min(1, ...) around the exact-match ratio
artistScoreUncapped(artists1, artists2) ==
    LET exactMatches == commonCount(artists1, artists2)
        partialMatches ==
            Len(SelectSeq(artists1,
                          LAMBDA a1 : \E k \in 1..Len(artists2) :
                              includes(a1, artists2[k]) \/ includes(artists2[k], a1)))
        most == Max(Len(artists1), Len(artists2))
    IN IF exactMatches > 0
       THEN FMul(Frac(exactMatches, most), Frac(6, 5))
       ELSE IF partialMatches > 0
            THEN FMin(Frac(4, 5), FMul(Frac(partialMatches, most), Frac(4, 5)))
            ELSE wordOverlap(splitWords(join(artists1, <<" ">>)),
                             splitWords(join(artists2, <<" ">>)))

\* the artist component of the DEPLOYMENT.md build over the two artist arrays
artistScoreOf(artists1, artists2) ==
    LET exactMatches == commonCount(artists1, artists2)
        partialMatches ==
            Len(SelectSeq(artists1,
                          LAMBDA a1 : \E k \in 1..Len(artists2) :
                              includes(a1, artists2[k]) \/ includes(artists2[k], a1)))
        most == Max(Len(artists1), Len(artists2))
    IN IF exactMatches > 0
       THEN FMin(One, FMul(Frac(exactMatches, most), Frac(6, 5)))
       ELSE IF partialMatches > 0
            THEN FMin(Frac(4, 5), FMul(Frac(partialMatches, most), Frac(4, 5)))
            ELSE wordOverlap(splitWords(join(artists1, <<" ">>)),
                             splitWords(join(artists2, <<" ">>)))

\* the artist component of the server.js build over the two normalized strings
artistScoreSingle(normalizedArtist1, normalizedArtist2) ==
    IF normalizedArtist1 = normalizedArtist2 THEN One
    ELSE IF \/ includes(normalizedArtist1, normalizedArtist2)
            \/ includes(normalizedArtist2, normalizedArtist1)
         THEN Frac(4, 5)
         ELSE wordOverlap(splitWords(normalizedArtist1), splitWords(normalizedArtist2))

\* (trackScore * 0.7) + (artistScore * 0.3)
combine(trackScore, artistScore) ==
    FAdd(FMul(trackScore, Frac(7, 10)), FMul(artistScore, Frac(3, 10)))

\* calculateMatchScore of the DEPLOYMENT.md build
calculateMatchScore(trackName1, artistName1, trackName2, artistName2) ==
    combine(trackScoreOf(normalize(trackName1), normalize(trackName2)),
            artistScoreOf(splitArtists(artistName1), splitArtists(artistName2)))

\* calculateMatchScore of the server.js build
calculateMatchScoreSingle(trackName1, artistName1, trackName2, artistName2) ==
    combine(trackScoreOf(normalize(trackName1), normalize(trackName2)),
            artistScoreSingle(normalize(artistName1), normalize(artistName2)))

(***************************************************************************)
(* Values of the JavaScript heap                                           *)
(***************************************************************************)
\* undefined, where a string is expected
Undefined == <<"undefined">>

\* a value in a condition: undefined and '' are falsy
truthy(v) == v # Undefined /\ v # <<>>

\* the threshold test with >= in place of >
aboveThresholdInclusive(score) == FLeq(Frac(1, 2), score)

\* a score against the acceptance threshold: score > 0.5
aboveThreshold(score) == FLess(Frac(1, 2), score)

(***************************************************************************)
(* Query generator (the head of findLinks)                                 *)
(***************************************************************************)
\* the index of the first `close` of str after index i, 0 if there is none
RECURSIVE indexAfter(_, _, _)
indexAfter(str, i, close) ==
    IF i >= Len(str) THEN 0
    ELSE IF str[i + 1] = close THEN i + 1
    ELSE indexAfter(str, i + 1, close)

\* str.replace(/\([^)]*\)/g, '') with open = "(", close = ")"; likewise [ ]
RECURSIVE removeDelimitedFrom(_, _, _, _)
removeDelimitedFrom(str, i, open, close) ==
    IF i > Len(str) THEN <<>>
    ELSE IF str[i] = open /\ indexAfter(str, i, close) # 0
         THEN removeDelimitedFrom(str, indexAfter(str, i, close) + 1, open, close)
         ELSE <<str[i]>> \o removeDelimitedFrom(str, i + 1, open, close)

\* metadata.title.replace(/\([^)]*\)/g, '').replace(/\[[^\]]*\]/g, '').trim()
cleanField(str) ==
    trim(removeDelimitedFrom(removeDelimitedFrom(str, 1, "(", ")"), 1, "[", "]"))

Saiyaara == <<"S", "a", "i", "y", "a", "a", "r", "a">>

\* searchQueries with the title alone ahead of the combined forms
buildQueriesTitleFirst(b, title, artist) ==
    << title,
       title \o <<" ">> \o artist,
       artist \o <<" ">> \o title,
       title \o <<" ", "a", "r", "t", "i", "s", "t", ":">> \o artist >>

\* const searchQueries = [...] from the cleaned title and artist
buildQueries(b, title, artist) ==
    LET common ==
            << title \o <<" ">> \o artist,
               artist \o <<" ">> \o title,
               title,
               title \o <<" ", "a", "r", "t", "i", "s", "t", ":">> \o artist >>
    IN IF b = "deployment"
       THEN common \o
            << title \o <<" ">> \o artist \o <<" ">> \o Saiyaara,
               title \o <<" ", "m", "o", "v", "i", "e", " ">> \o Saiyaara >>
       ELSE common

\* the YouTube Music loop without its slice of the queries
youTubeQueriesAll(b, all) == all

\* searchQueries.slice(0, 3) in DEPLOYMENT.md, searchQueries.slice(0, 2) in server.js
youTubeQueryCap(b) == IF b = "deployment" THEN 3 ELSE 2

youTubeQueries(b, all) == slice0(all, youTubeQueryCap(b))

\* response.content.slice(0, 5)
youTubeItems(content) == slice0(content, 5)

\* the scorer of the build
score(b, trackName1, artistName1, trackName2, artistName2) ==
    IF b = "deployment"
    THEN calculateMatchScore(trackName1, artistName1, trackName2, artistName2)
    ELSE calculateMatchScoreSingle(trackName1, artistName1, trackName2, artistName2)

(***************************************************************************)
(* The Spotify loop of findLinks                                           *)
(***************************************************************************)
\* calculateMatchScore(track.name, track.artists[0].name, ...) throws a
\* TypeError when the track has no name, no artist or an artist without name
spotifyThrows(track) ==
    \/ track.name = Undefined
    \/ track.artists = <<>>
    \/ track.artists[1] = Undefined

\* the artist string the Spotify loop hands to the scorer: track.artists[0].name
spotifyArtistArg(track) == track.artists[1]

\* the acceptance test without the comparison against the running best
acceptsLatest(candidateScore, bestScore) == aboveThreshold(candidateScore)

\* the acceptance test without the threshold
acceptsHighest(candidateScore, bestScore) == FLess(bestScore, candidateScore)

\* the acceptance test with >= against the running best
acceptsTies(candidateScore, bestScore) ==
    FLeq(bestScore, candidateScore) /\ aboveThreshold(candidateScore)

\* if (score > bestScore && score > 0.5)
accepts(candidateScore, bestScore) ==
    FLess(bestScore, candidateScore) /\ aboveThreshold(candidateScore)

spotifyScore(b, track, refTitle, refArtist) ==
    score(b, track.name, spotifyArtistArg(track), refTitle, refArtist)

\* history of the candidates scored so far: `seen` the highest score computed,
\* `first` the first candidate that reached it, `tie` the last later candidate
\* that equalled it
remember(best, candidate, candidateScore) ==
    IF FLess(best.seen, candidateScore)
    THEN [best EXCEPT !.seen = candidateScore, !.first = <<candidate>>, !.tie = <<>>]
    ELSE IF FLeq(best.seen, candidateScore)
         THEN [best EXCEPT !.tie = <<candidate>>]
         ELSE best

\* variant: an accepted candidate becomes the best match, the best score
\* staying as it was
considerMatchOnly(best, candidate, candidateScore) ==
    IF accepts(candidateScore, best.score)
    THEN [remember(best, candidate, candidateScore) EXCEPT !.match = <<candidate>>]
    ELSE remember(best, candidate, candidateScore)

\* the body of either loop for one candidate with its score: the running
\* best [score, match], with the history kept beside it
consider(best, candidate, candidateScore) ==
    IF accepts(candidateScore, best.score)
    THEN [remember(best, candidate, candidateScore)
              EXCEPT !.score = candidateScore, !.match = <<candidate>>]
    ELSE remember(best, candidate, candidateScore)

\* for (const track of response.data.tracks.items) { ... }: the running best
\* after the tracks of one response, with `threw` when a track made the
\* scoring throw (the score is computed once per track)
RECURSIVE scoreSpotifyTracks(_, _, _, _, _)
scoreSpotifyTracks(b, items, best, refTitle, refArtist) ==
    IF items = <<>> THEN best
    ELSE LET track == Head(items)
         IN IF spotifyThrows(track)
            THEN [best EXCEPT !.threw = TRUE]
            ELSE scoreSpotifyTracks(
                     b, Tail(items),
                     CHOOSE r \in {consider(best, track, sc) :
                                      sc \in {spotifyScore(b, track, refTitle, refArtist)}} :
                         TRUE,
                     refTitle, refArtist)

(***************************************************************************)
(* The YouTube Music loop of findLinks                                     *)
(***************************************************************************)
\* an artist entry that is null: a => a.name throws on it
NullArtist == <<"null">>

\* a.name joined by Array.prototype.join: undefined joins as ''
joinable(names) == [k \in 1..Len(names) |-> IF names[k] = Undefined THEN <<>> ELSE names[k]]

albumFallback(item) ==
    IF truthy(item.album) THEN item.album
    ELSE <<"U", "n", "k", "n", "o", "w", "n", " ", "A", "r", "t", "i", "s", "t">>

\* the artist string the YouTube Music loop hands to the scorer
youTubeArtistArg(b, item) ==
    IF b = "deployment"
    THEN IF item.artist.kind = "array"
         THEN IF Len(item.artist.names) > 0
              THEN join(joinable(item.artist.names), <<",", " ">>)
              ELSE albumFallback(item)
         ELSE IF item.artist.kind = "object" /\ truthy(item.artist.names[1])
              THEN item.artist.names[1]
              ELSE albumFallback(item)
    ELSE item.artist.names[1]

\* if (item && item.name && item.videoId), with item.artist && item.artist.name
\* too in server.js
youTubeWellFormed(b, item) ==
    IF b = "deployment"
    THEN truthy(item.name) /\ truthy(item.videoId)
    ELSE /\ truthy(item.name)
         /\ item.artist.kind = "object"
         /\ truthy(item.artist.names[1])
         /\ truthy(item.videoId)

\* the inner try block throws: a null entry in the artist array
youTubeScoreThrows(b, item) ==
    /\ b = "deployment"
    /\ item.artist.kind = "array"
    /\ \E k \in 1..Len(item.artist.names) : item.artist.names[k] = NullArtist

\* whether the loop scores the item at all
youTubeScored(b, item) == youTubeWellFormed(b, item) /\ ~youTubeScoreThrows(b, item)

youTubeScore(b, item, refTitle, refArtist) ==
    score(b, item.name, youTubeArtistArg(b, item), refTitle, refArtist)

\* for (const item of response.content.slice(0, 5)) { ... }: the running best
\* after the items of one response
RECURSIVE scoreYouTubeItems(_, _, _, _, _)
scoreYouTubeItems(b, items, best, refTitle, refArtist) ==
    IF items = <<>> THEN best
    ELSE LET item == Head(items)
         IN scoreYouTubeItems(
                b, Tail(items),
                IF ~youTubeScored(b, item) THEN best
                ELSE CHOOSE r \in {consider(best, item, sc) :
                                      sc \in {youTubeScore(b, item, refTitle, refArtist)}} :
                         TRUE,
                refTitle, refArtist)

\* `https://music.youtube.com/watch?v=${videoId}`
youTubeMusicUrl(videoId) == <<"https://music.youtube.com/watch?v=">> \o videoId

(***************************************************************************)
(* Metadata extractors                                                     *)
(***************************************************************************)
\* getSpotifyTrackDetails: data.artists.map(a => a.name).join(', ') in
\* DEPLOYMENT.md, data.artists[0].name in server.js
spotifyMetadata(b, data) ==
    [title |-> data.name,
     artist |-> IF b = "deployment"
                THEN join(joinable(data.artists), <<",", " ">>)
                ELSE data.artists[1]]

\* the smallest index at which sub occurs in str from index i on, 0 if none
RECURSIVE indexOfFrom(_, _, _)
indexOfFrom(str, sub, i) ==
    IF i + Len(sub) - 1 > Len(str) THEN 0
    ELSE IF SubSeq(str, i, i + Len(sub) - 1) = sub THEN i
    ELSE indexOfFrom(str, sub, i + 1)

\* str.replace(sub, ''): the first occurrence only
removeFirst(str, sub) ==
    LET at == indexOfFrom(str, sub, 1)
    IN IF at = 0 THEN str
       ELSE SubSeq(str, 1, at - 1) \o SubSeq(str, at + Len(sub), Len(str))

\* the start of the white space run that ends right before index i
RECURSIVE runStart(_, _)
runStart(str, i) ==
    IF i > 1 /\ IsSpaceChar(str[i - 1]) THEN runStart(str, i - 1) ELSE i

\* str.replace(/\s*\([^)]*\)\s*$/, '')
removeTrailingParen(str) ==
    LET e == Len(trimEnd(str))
        opens == {q \in 1..(e - 1) :
                     /\ str[q] = "("
                     /\ \A k \in (q + 1)..(e - 1) : str[k] # ")"}
    IN IF e >= 2 /\ str[e] = ")" /\ opens # {}
       THEN SubSeq(str, 1, runStart(str, CHOOSE q \in opens : \A r \in opens : q <= r) - 1)
       ELSE str

FromTheAlbum ==
    <<"(", "F", "r", "o", "m", " ", "t", "h", "e", " ",
      "A", "l", "b", "u", "m", " ", "\"">>

\* str.replace(/\s*\(From the Album "[^"]*"\)\s*/, '')
removeFromTheAlbum(str) ==
    LET n == Len(FromTheAlbum)
        quoteAfter(q) == indexAfter(str, q + n - 1, "\"")
        hits == {q \in 1..Len(str) :
                    /\ q + n - 1 <= Len(str)
                    /\ SubSeq(str, q, q + n - 1) = FromTheAlbum
                    /\ quoteAfter(q) # 0
                    /\ quoteAfter(q) < Len(str)
                    /\ str[quoteAfter(q) + 1] = ")"}
        first == CHOOSE q \in hits : \A r \in hits : q <= r
    IN IF hits = {} THEN str
       ELSE SubSeq(str, 1, runStart(str, first) - 1)
            \o SubSeq(str, skipSpaces(str, quoteAfter(first) + 2), Len(str))

DashSep == <<" ", "-", " ">>
TopicSuffix == <<" ", "-", " ", "T", "o", "p", "i", "c">>
UnknownArtist ==
    <<"U", "n", "k", "n", "o", "w", "n", " ", "A", "r", "t", "i", "s", "t">>

\* title.split(' - '): the first two parts (the second is Undefined if there is one part)
splitDash(title) ==
    LET at == indexOfFrom(title, DashSep, 1)
        rest == SubSeq(title, at + Len(DashSep), Len(title))
        at2 == indexOfFrom(rest, DashSep, 1)
    IN IF at = 0 THEN <<title, Undefined>>
       ELSE <<SubSeq(title, 1, at - 1),
              IF at2 = 0 THEN rest ELSE SubSeq(rest, 1, at2 - 1)>>

\* the placeholder metadata: `YouTube Music Track (${videoId})`
fallbackMetadata(videoId) ==
    [title |-> <<"Y", "o", "u", "T", "u", "b", "e", " ", "M", "u", "s", "i", "c", " ",
                 "T", "r", "a", "c", "k", " ", "(">> \o videoId \o <<")">>,
     artist |-> UnknownArtist]

\* getYouTubeMusicTrackDetails once the oEmbed call has returned `data`
youTubeMetadata(data, videoId) ==
    IF ~truthy(data.title) THEN fallbackMetadata(videoId)
    ELSE IF truthy(data.author_name) /\ includes(data.author_name, TopicSuffix)
         THEN [title |-> removeFromTheAlbum(removeTrailingParen(data.title)),
               artist |-> trim(removeFirst(data.author_name, TopicSuffix))]
         ELSE IF truthy(data.author_name)
              THEN [title |-> data.title, artist |-> data.author_name]
              ELSE LET parts == splitDash(data.title)
                   IN IF parts[2] # Undefined
                      THEN [title |-> trim(parts[2]), artist |-> trim(parts[1])]
                      ELSE [title |-> data.title, artist |-> UnknownArtist]

(***************************************************************************)
(* The /convert handler: URL dispatch                                      *)
(***************************************************************************)
\* A link is a sequence of tokens; a token that an identifier pattern
\* ([a-zA-Z0-9]+, [a-zA-Z0-9_-]+) matches is one of IdTokens.
IdTokens == {"t1", "v9"}

\* the token after the first `key` token that an identifier follows,
\* Undefined when the pattern does not match (match returns null)
matchAfter(link, key) ==
    LET hits == {i \in 1..(Len(link) - 1) : link[i] = key /\ link[i + 1] \in IdTokens}
    IN IF hits = {} THEN Undefined
       ELSE <<link[(CHOOSE i \in hits : \A j \in hits : i <= j) + 1]>>

\* link.match(/track\/([a-zA-Z0-9]+)/)
matchTrackId(link) == matchAfter(link, "track/")

\* link.match(/v=([a-zA-Z0-9_-]+)/)
matchVideoId(link) == matchAfter(link, "v=")

isSpotifyLink(link) == includes(link, <<"spotify.com">>)

\* 'music.youtube.com' contains 'youtube.com': the host token decides both tests
isYouTubeLink(link) == includes(link, <<"youtube.com">>)

(***************************************************************************)
(* Inputs: request links, upstream answers, provider catalogues            *)
(***************************************************************************)
\* the longest candidate sequence a provider answers one query with
MaxResults == 2

Links ==
    { <<>>,
      <<"https://open.", "spotify.com", "/", "track/", "t1">>,
      <<"https://open.", "spotify.com", "/", "album/", "t1">>,
      <<"https://music.", "youtube.com", "/watch?", "v=", "v9">>,
      <<"https://www.", "youtube.com", "/playlist?", "list=", "v9">>,
      <<"https://", "example.com", "/", "t1">> }

\* answers of GET /v1/tracks/{id}
SpotifyTrackData ==
    { [name |-> <<"a", " ", "b", " ", "(", "x", ")">>,
       artists |-> << <<"c">>, <<"d">>, <<"n">> >>],
      [name |-> <<"a", " ", "b">>, artists |-> << <<"c">> >>] }

\* answers of the oEmbed lookup
OEmbedData ==
    { [title |-> <<"a", " ", "b", " ", "(", "x", ")">>,
       author_name |-> <<"c", ",", " ", "d", ",", " ", "n">>],
      [title |-> <<"a", " ", "b", " ", "(", "x", ")">>,
       author_name |-> <<"c">> \o TopicSuffix],
      [title |-> <<"c", " ", "-", " ", "a", " ", "b">>, author_name |-> Undefined],
      [title |-> Undefined, author_name |-> Undefined] }

\* tracks the Spotify search answers with
SpotifyCatalog ==
    { [name |-> <<"a", " ", "b">>, artists |-> << <<"c">>, <<"d">>, <<"n">> >>,
       url |-> <<"https://open.spotify.com/track/", "1">>],
      [name |-> <<"A", " ", "B">>, artists |-> << <<"d">>, <<"c">> >>,
       url |-> <<"https://open.spotify.com/track/", "2">>],
      [name |-> <<"a", " ", "b", " ", "x">>, artists |-> << <<"c">> >>,
       url |-> <<"https://open.spotify.com/track/", "3">>],
      [name |-> <<"a", " ", "c">>, artists |-> << <<"c", "x">> >>,
       url |-> <<"https://open.spotify.com/track/", "4">>],
      [name |-> <<"a", " ", "b">>, artists |-> <<>>,
       url |-> <<"https://open.spotify.com/track/", "5">>] }

\* an item that scores low against every reference
YouTubeFiller ==
    [name |-> <<"a", " ", "c">>,
     artist |-> [kind |-> "object", names |-> << <<"c", "x">> >>],
     album |-> Undefined, videoId |-> <<"3">>]

\* items the YouTube Music search answers with
YouTubeCatalog ==
    { [name |-> <<"a", " ", "b">>,
       artist |-> [kind |-> "array", names |-> << <<"c">>, <<"d">>, <<"n">> >>],
       album |-> Undefined, videoId |-> <<"1">>],
      [name |-> <<"a", " ", "b", " ", "x">>,
       artist |-> [kind |-> "object", names |-> << <<"c">> >>],
       album |-> Undefined, videoId |-> <<"2">>],
      YouTubeFiller,
      [name |-> Undefined,
       artist |-> [kind |-> "object", names |-> << <<"c">> >>],
       album |-> Undefined, videoId |-> <<"4">>],
      [name |-> <<"a", " ", "b">>,
       artist |-> [kind |-> "none", names |-> <<>>],
       album |-> Undefined, videoId |-> <<"5">>] }

\* the answers to one query: sequences of at most MaxResults candidates
Responses(catalog) == UNION {[1..k -> catalog] : k \in 0..MaxResults}

SpotifyResponses == Responses(SpotifyCatalog)

\* answers of six items, one more than the loop looks at: five fillers, then
\* any item of the catalogue
LongContent ==
    {[k \in 1..6 |-> IF k <= 5 THEN YouTubeFiller ELSE last] : last \in YouTubeCatalog}

YouTubeResponses == Responses(YouTubeCatalog) \cup LongContent

(***************************************************************************)
(* State of one server process                                             *)
(***************************************************************************)
VARIABLES
    build,          \* "deployment" (DEPLOYMENT.md) or "server" (server.js)
    pc,             \* where the /convert handler is suspended
    link,           \* req.body.link
    source,         \* 'Spotify' or 'YouTube Music' once the extractor returned
    cleanTitle,     \* const cleanTitle of findLinks
    cleanArtist,    \* const cleanArtist of findLinks
    searchQueries,  \* const searchQueries of findLinks
    qi,             \* index of the query the running loop issues next
    spotify,        \* [score, match]: bestSpotifyScore, bestSpotifyMatch
    youtube,        \* [score, match]: bestYouTubeScore, bestYouTubeMatch
    links,          \* the links object of findLinks
    res,            \* the response sent: [status, error, source, links]
    sent,           \* how many responses the handler has sent
    trace,          \* history of the provider block that ran last
    outcome,        \* history: how each provider block was left
    args,           \* the four strings of a direct call of the scorer
    result,         \* what that call returned: <<>> before it has
    console,        \* what console.error has printed: [at, text]
    single,         \* the response of /convert-single: [status, body]
    pending         \* the provider search calls awaited: [provider, query]

vars ==
    <<build, pc, link, source, cleanTitle, cleanArtist, searchQueries, qi,
      spotify, youtube, links, res, sent, trace, outcome, args, result,
      console, single, pending>>

NoBest == [score |-> Zero, match |-> <<>>]
NoLinks == [spotify |-> Undefined, youtubeMusic |-> Undefined]
NoRes == [status |-> 0, error |-> "", source |-> "", links |-> NoLinks]

\* the indices of the queries the block has issued and the history of the
\* candidates it has scored
NoTrace == [issued |-> <<>>, seen |-> Zero, first |-> <<>>, tie |-> <<>>, auth |-> <<>>]

\* the queries issued, with the history of the record `r`
traceOf(issued, r) ==
    [issued |-> issued, seen |-> r.seen, first |-> r.first, tie |-> r.tie,
     auth |-> trace.auth]

\* per provider: "" while its block has not been left, "completed" when its
\* loop ran to the end, else what threw into its catch: "auth" (token or
\* session step), "search" (a search call), "candidate" (scoring a candidate)
NoOutcome == [spotify |-> "", youtube |-> ""]

NoSingle == [status |-> 0, body |-> <<>>]

\* error.message of an error raised by a call to a provider or to another
\* upstream service
ErrorTexts == {"connect ECONNREFUSED", "Request failed with status code 401"}

\* error.message of the TypeError of a property read on null or undefined
TypeErrorText == "Cannot read properties of null"

\* console.error(..., text) in the catch `at`
log(at, text) == console' = Append(console, [at |-> at, text |-> text])

Init ==
    /\ build \in {"deployment", "server"}
    /\ pc = "idle"
    /\ link = <<>>
    /\ source = ""
    /\ cleanTitle = Undefined
    /\ cleanArtist = Undefined
    /\ searchQueries = <<>>
    /\ qi = 0
    /\ spotify = NoBest
    /\ youtube = NoBest
    /\ links = NoLinks
    /\ res = NoRes
    /\ sent = 0
    /\ trace = NoTrace
    /\ outcome = NoOutcome
    /\ args = <<>>
    /\ result = <<>>
    /\ console = <<>>
    /\ single = NoSingle
    /\ pending = {}

(***************************************************************************)
(* app.post('/convert')                                                    *)
(***************************************************************************)
\* variant: the handler ends on the error path without a response
sendErrorUnanswered(status, message) ==
    /\ pc' = "done"
    /\ UNCHANGED <<res, sent>>

\* variant: the catch answers with the text of the error it has just logged
sendErrorEchoes(status, message) ==
    /\ res' = [status |-> status,
               error |-> IF console' # console THEN console'[Len(console')].text
                         ELSE message,
               source |-> "", links |-> NoLinks]
    /\ sent' = sent + 1
    /\ pc' = "done"

\* res.status(status).json({ error })
sendError(status, message) ==
    /\ res' = [status |-> status, error |-> message, source |-> "", links |-> NoLinks]
    /\ sent' = sent + 1
    /\ pc' = "done"

LinkRequired == "Link is required"
Unsupported == "Unsupported link provider. Please use Spotify or YouTube Music links."
Failed == "Failed to convert link. The API might be down or the link is invalid."

\* the request arrives: the handler runs to its first await
Convert(l) ==
    /\ pc = "idle"
    /\ link' = l
    /\ UNCHANGED <<pending, single, args, result, build, source, cleanTitle, cleanArtist, searchQueries, qi,
                   spotify, youtube, links, trace, outcome>>
    /\ IF ~truthy(l)
       THEN UNCHANGED console /\ sendError(400, LinkRequired)
       ELSE IF isSpotifyLink(l)
            THEN IF matchTrackId(l) = Undefined
                 THEN \* null[1] throws into the catch, which logs the error
                      log("convert", TypeErrorText) /\ sendError(500, Failed)
                 ELSE pc' = "extract_token" /\ UNCHANGED <<res, sent, console>>
            ELSE IF isYouTubeLink(l)
                 THEN IF matchVideoId(l) = Undefined
                      THEN log("convert", TypeErrorText) /\ sendError(500, Failed)
                      ELSE pc' = "extract_oembed" /\ UNCHANGED <<res, sent, console>>
                 ELSE UNCHANGED console /\ sendError(400, Unsupported)

\* getSpotifyTrackDetails threw (the token call or the track lookup): the
\* catch of the handler answers 500
ExtractFails(msg) ==
    /\ log("convert", msg)
    /\ pc \in {"extract_token", "extract_track"}
    /\ sendError(500, Failed)
    /\ UNCHANGED <<pending, single, args, result, build, link, source, cleanTitle, cleanArtist, searchQueries, qi,
                   spotify, youtube, links, trace, outcome>>

\* getSpotifyTrackDetails: await getSpotifyToken() returns
ExtractToken ==
    /\ pc = "extract_token"
    /\ pc' = "extract_track"
    /\ UNCHANGED <<pending, console, single, args, result, build, link, source, cleanTitle, cleanArtist, searchQueries, qi,
                   spotify, youtube, links, res, sent, trace, outcome>>

\* findLinks starts: the cleaned fields and the queries, up to its first await
enterFindLinks(metadata) ==
    /\ cleanTitle' = cleanField(metadata.title)
    /\ cleanArtist' = cleanField(metadata.artist)
    /\ searchQueries' = buildQueries(build, cleanField(metadata.title),
                                     cleanField(metadata.artist))
    /\ pc' = "spotify_token"

\* getSpotifyTrackDetails: await axios.get(.../v1/tracks/{id}) returns `data`
ExtractTrack(data) ==
    /\ pc = "extract_track"
    /\ source' = "Spotify"
    /\ enterFindLinks(spotifyMetadata(build, data))
    /\ UNCHANGED <<pending, console, single, args, result, build, link, qi, spotify, youtube, links, res, sent, trace, outcome>>

\* getYouTubeMusicTrackDetails: await axios.get(oEmbed) returns `data`
ExtractOEmbed(data) ==
    /\ pc = "extract_oembed"
    /\ source' = "YouTube Music"
    /\ enterFindLinks(youTubeMetadata(data, matchVideoId(link)))
    /\ UNCHANGED <<pending, console, single, args, result, build, link, qi, spotify, youtube, links, res, sent, trace, outcome>>

\* variant: the oEmbed failure leaves the function and reaches the handler's catch
ExtractOEmbedFailsPropagates(msg) ==
    /\ log("oembed", msg)
    /\ pc = "extract_oembed"
    /\ sendError(500, Failed)
    /\ UNCHANGED <<pending, single, args, result, build, link, source, cleanTitle, cleanArtist,
                   searchQueries, qi, spotify, youtube, links, trace, outcome>>

\* getYouTubeMusicTrackDetails: the oEmbed call throws into the function's own
\* catch, which falls through to the placeholder metadata
ExtractOEmbedFails(msg) ==
    /\ log("oembed", msg)
    /\ pc = "extract_oembed"
    /\ source' = "YouTube Music"
    /\ enterFindLinks(fallbackMetadata(matchVideoId(link)))
    /\ UNCHANGED <<pending, single, args, result, build, link, qi, spotify, youtube, links, res, sent, trace, outcome>>

(***************************************************************************)
(* findLinks                                                               *)
(***************************************************************************)
\* the search call of a provider for its i-th query
call(provider, i) == [provider |-> provider, query |-> i]

\* variant: the call for the query after the i-th is sent along with it
issueAhead(provider, i) == {call(provider, i), call(provider, i + 1)}

\* the loop reaches the await of its i-th search call
issue(provider, i) == {call(provider, i)}

\* the awaited call of the query qi has returned or thrown
settle(provider) == pending \ {call(provider, qi)}

\* the Spotify try block is left: by its end or through its catch
leaveSpotify(best, how, issued, history) ==
    /\ pending' = settle("spotify")
    /\ spotify' = best
    /\ trace' = [traceOf(issued, history) EXCEPT
                      !.auth = IF how = "auth" THEN <<"failed">> ELSE @]
    /\ outcome' = [outcome EXCEPT !.spotify = how]
    /\ pc' = "youtube_init"
    /\ qi' = 0

\* const token = await getSpotifyToken() returns
SpotifyToken ==
    /\ pc = "spotify_token"
    /\ pc' = "spotify_search"
    /\ qi' = 1
    /\ pending' = issue("spotify", 1)
    /\ spotify' = NoBest
    /\ trace' = [trace EXCEPT !.auth = Append(@, "ok")]
    /\ UNCHANGED <<console, single, args, result, build, link, source, cleanTitle, cleanArtist, searchQueries,
                   youtube, links, res, sent, outcome>>

\* variant: the Spotify loop runs although getSpotifyToken() has thrown
SpotifyTokenFailsSearches(msg) ==
    /\ log("spotify", msg)
    /\ pc = "spotify_token"
    /\ pc' = "spotify_search"
    /\ qi' = 1
    /\ pending' = issue("spotify", 1)
    /\ spotify' = NoBest
    /\ trace' = [trace EXCEPT !.auth = Append(@, "failed")]
    /\ UNCHANGED <<single, args, result, build, link, source, cleanTitle, cleanArtist,
                   searchQueries, youtube, links, res, sent, outcome>>

\* getSpotifyToken() throws into the catch of the Spotify block
SpotifyTokenFails(msg) ==
    /\ log("spotify", msg)
    /\ pc = "spotify_token"
    /\ leaveSpotify(NoBest, "auth", <<>>, NoTrace)
    /\ UNCHANGED <<single, args, result, build, link, source, cleanTitle, cleanArtist, searchQueries,
                   youtube, links, res, sent>>

\* a catch of the Spotify block that would still publish the running best
SpotifySearchFailsKeepsBest(msg) ==
    /\ log("spotify", msg)
    /\ pc = "spotify_search"
    /\ leaveSpotify(spotify, "search", Append(trace.issued, qi), trace)
    /\ links' = IF spotify.match # <<>>
                THEN [links EXCEPT !.spotify = spotify.match[1].url]
                ELSE links
    /\ UNCHANGED <<single, args, result, build, link, source, cleanTitle, cleanArtist,
                   searchQueries, youtube, res, sent>>

\* await axios.get(.../v1/search) for searchQueries[qi] throws into the catch
SpotifySearchFails(msg) ==
    /\ log("spotify", msg)
    /\ pc = "spotify_search"
    /\ leaveSpotify(spotify, "search", Append(trace.issued, qi), trace)
    /\ UNCHANGED <<single, args, result, build, link, source, cleanTitle, cleanArtist, searchQueries,
                   youtube, links, res, sent>>

\* await axios.get(.../v1/search) for searchQueries[qi] returns `items`: the
\* scoring of the tracks and, after the last query, links.spotify
SpotifySearch(items) ==
    /\ pc = "spotify_search"
    /\ call("spotify", qi) \in pending
    /\ UNCHANGED <<single, args, result, build, link, source, cleanTitle, cleanArtist, searchQueries,
                   youtube, res, sent>>
    /\ \E after \in {scoreSpotifyTracks(
                        build, items,
                        [score |-> spotify.score, match |-> spotify.match,
                         threw |-> FALSE, seen |-> trace.seen,
                         first |-> trace.first, tie |-> trace.tie],
                        cleanTitle, cleanArtist)} :
       LET issued == Append(trace.issued, qi)
           best == [score |-> after.score, match |-> after.match]
       IN IF after.threw
          THEN leaveSpotify(best, "candidate", issued, after)
               /\ log("spotify", TypeErrorText)
               /\ UNCHANGED links
          ELSE IF qi < Len(searchQueries)
               THEN /\ qi' = qi + 1
                    /\ pending' = settle("spotify") \cup issue("spotify", qi + 1)
                    /\ spotify' = best
                    /\ trace' = traceOf(issued, after)
                    /\ UNCHANGED <<pc, links, outcome, console>>
               ELSE /\ leaveSpotify(best, "completed", issued, after)
                    /\ links' = IF best.match # <<>>
                                THEN [links EXCEPT !.spotify = best.match[1].url]
                                ELSE links
                    /\ UNCHANGED console

\* res.json({ source, links }) without the original link put under its key
sendLinksFound(found) ==
    /\ res' = [status |-> 200, error |-> "", source |-> source, links |-> found]
    /\ links' = found
    /\ sent' = sent + 1
    /\ pc' = "done"

\* res.json({ source, links }) once findLinks has returned `found`
sendLinks(found) ==
    /\ res' = [status |-> 200, error |-> "", source |-> source,
               links |-> IF source = "Spotify"
                         THEN [found EXCEPT !.spotify = link]
                         ELSE [found EXCEPT !.youtubeMusic = link]]
    /\ links' = found
    /\ sent' = sent + 1
    /\ pc' = "done"

\* the YouTube Music try block is left; findLinks returns and /convert answers
leaveYouTube(best, how, issued, history, found) ==
    /\ pending' = settle("youtube")
    /\ youtube' = best
    /\ trace' = [traceOf(issued, history) EXCEPT
                      !.auth = IF how = "auth" THEN <<"failed">> ELSE @]
    /\ outcome' = [outcome EXCEPT !.youtube = how]
    /\ qi' = 0
    /\ sendLinks(found)

\* variant: one best score for both providers, the YouTube Music loop starting
\* from the score the Spotify loop has reached
YouTubeInitSharedBest ==
    /\ pc = "youtube_init"
    /\ pc' = "youtube_search"
    /\ qi' = 1
    /\ pending' = issue("youtube", 1)
    /\ spotify' = NoBest
    /\ youtube' = [score |-> spotify.score, match |-> <<>>]
    /\ trace' = [NoTrace EXCEPT !.auth = <<"ok">>]
    /\ UNCHANGED <<console, single, args, result, build, link, source, cleanTitle,
                   cleanArtist, searchQueries, links, res, sent, outcome>>

\* await ytMusicApi.initalize() returns; the locals of the Spotify block are
\* out of scope
YouTubeInit ==
    /\ pc = "youtube_init"
    /\ pc' = "youtube_search"
    /\ qi' = 1
    /\ pending' = issue("youtube", 1)
    /\ spotify' = NoBest
    /\ youtube' = NoBest
    /\ trace' = [NoTrace EXCEPT !.auth = <<"ok">>]
    /\ UNCHANGED <<console, single, args, result, build, link, source, cleanTitle, cleanArtist, searchQueries,
                   links, res, sent, outcome>>

\* ytMusicApi.initalize() throws into the catch of the YouTube Music block
YouTubeInitFails(msg) ==
    /\ log("youtube", msg)
    /\ pc = "youtube_init"
    /\ spotify' = NoBest
    /\ leaveYouTube(NoBest, "auth", <<>>, NoTrace, links)
    /\ UNCHANGED <<single, args, result, build, link, source, cleanTitle, cleanArtist, searchQueries>>

\* a YouTube Music block without its catch: the error reaches the handler
YouTubeSearchFailsPropagates(msg) ==
    /\ log("youtube", msg)
    /\ pc = "youtube_search"
    /\ trace' = [trace EXCEPT !.issued = Append(@, qi)]
    /\ outcome' = [outcome EXCEPT !.youtube = "search"]
    /\ qi' = 0
    /\ pending' = settle("youtube")
    /\ sendError(500, Failed)
    /\ UNCHANGED <<single, args, result, build, link, source, cleanTitle, cleanArtist,
                   searchQueries, spotify, youtube, links>>

\* await ytMusicApi.search(query, "song") throws into the catch
YouTubeSearchFails(msg) ==
    /\ log("youtube", msg)
    /\ pc = "youtube_search"
    /\ leaveYouTube(youtube, "search", Append(trace.issued, qi), trace, links)
    /\ UNCHANGED <<single, args, result, build, link, source, cleanTitle, cleanArtist, searchQueries, spotify>>

\* await ytMusicApi.search(query, "song") returns `content` for the qi-th of
\* the capped queries: the scoring of its first five items and, after the last
\* query, links.youtubeMusic
YouTubeSearch(content) ==
    /\ pc = "youtube_search"
    /\ call("youtube", qi) \in pending
    /\ UNCHANGED <<console, single, args, result, build, link, source, cleanTitle, cleanArtist, searchQueries, spotify>>
    /\ \E after \in {scoreYouTubeItems(
                        build, youTubeItems(content),
                        [score |-> youtube.score, match |-> youtube.match,
                         threw |-> FALSE, seen |-> trace.seen,
                         first |-> trace.first, tie |-> trace.tie],
                        cleanTitle, cleanArtist)} :
       LET issued == Append(trace.issued, qi)
           best == [score |-> after.score, match |-> after.match]
       IN IF qi < Len(youTubeQueries(build, searchQueries))
          THEN /\ qi' = qi + 1
               /\ pending' = settle("youtube") \cup issue("youtube", qi + 1)
               /\ youtube' = best
               /\ trace' = traceOf(issued, after)
               /\ UNCHANGED <<pc, links, res, sent, outcome>>
          ELSE leaveYouTube(best, "completed", issued, after,
                            IF best.match # <<>>
                            THEN [links EXCEPT !.youtubeMusic =
                                     youTubeMusicUrl(best.match[1].videoId)]
                            ELSE links)

\* the server waits for the next request
NextRequest ==
    /\ pc = "done"
    /\ pc' = "idle"
    /\ link' = <<>>
    /\ source' = ""
    /\ cleanTitle' = Undefined
    /\ cleanArtist' = Undefined
    /\ searchQueries' = <<>>
    /\ qi' = 0
    /\ spotify' = NoBest
    /\ youtube' = NoBest
    /\ links' = NoLinks
    /\ res' = NoRes
    /\ sent' = 0
    /\ trace' = NoTrace
    /\ outcome' = NoOutcome
    /\ console' = <<>>
    /\ single' = NoSingle
    /\ pending' = {}
    /\ UNCHANGED <<args, result, build>>

(***************************************************************************)
(* app.post('/convert-single')                                             *)
(***************************************************************************)
NoAlternative == "No alternative link found"
ConversionFailed == "Conversion failed"

\* error.message of the error axios raises for an answer outside 2xx
statusText(status) ==
    IF status = 400 THEN "Request failed with status code 400"
    ELSE "Request failed with status code 500"

\* variant: the link under the key of the source platform
alternativeLinkOfSource(body) ==
    IF body.source = "Spotify" /\ truthy(body.links.spotify)
    THEN body.links.spotify
    ELSE IF body.source = "YouTube Music" /\ truthy(body.links.youtubeMusic)
         THEN body.links.youtubeMusic
         ELSE Undefined

\* the link of the platform other than the source, Undefined if there is none
alternativeLink(body) ==
    IF body.source = "Spotify" /\ truthy(body.links.youtubeMusic)
    THEN body.links.youtubeMusic
    ELSE IF body.source = "YouTube Music" /\ truthy(body.links.spotify)
         THEN body.links.spotify
         ELSE Undefined

\* the internal axios.post to /convert has come back with the answer `res`:
\* a text body is a sequence of one string, a link is its tokens
ConvertSingle ==
    /\ build = "deployment"
    /\ pc = "done"
    /\ sent = 1
    /\ single = NoSingle
    /\ IF res.status = 200
       THEN /\ single' = IF alternativeLink(res) # Undefined
                         THEN [status |-> 200, body |-> alternativeLink(res)]
                         ELSE [status |-> 404, body |-> <<NoAlternative>>]
            /\ UNCHANGED console
       ELSE /\ single' = [status |-> res.status,
                          body |-> IF res.error # "" THEN <<res.error>>
                                   ELSE <<ConversionFailed>>]
            /\ log("convert-single", statusText(res.status))
    /\ UNCHANGED <<pending, args, result, build, pc, link, source, cleanTitle, cleanArtist,
                   searchQueries, qi, spotify, youtube, links, res, sent, trace,
                   outcome>>

\* the internal axios.post fails without an answer (error.response is not set)
ConvertSingleFails(msg) ==
    /\ build = "deployment"
    /\ pc = "idle"
    /\ single' = [status |-> 500, body |-> <<Failed>>]
    /\ log("convert-single", msg)
    /\ pc' = "done"
    /\ UNCHANGED <<pending, args, result, build, link, source, cleanTitle, cleanArtist,
                   searchQueries, qi, spotify, youtube, links, res, sent, trace,
                   outcome>>

Next ==
    \/ \E l \in Links : Convert(l)
    \/ \E msg \in ErrorTexts : ExtractFails(msg)
    \/ ExtractToken
    \/ \E data \in SpotifyTrackData : ExtractTrack(data)
    \/ \E data \in OEmbedData : ExtractOEmbed(data)
    \/ \E msg \in ErrorTexts : ExtractOEmbedFails(msg)
    \/ SpotifyToken
    \/ \E msg \in ErrorTexts : SpotifyTokenFails(msg)
    \/ \E items \in SpotifyResponses : SpotifySearch(items)
    \/ \E msg \in ErrorTexts : SpotifySearchFails(msg)
    \/ YouTubeInit
    \/ \E msg \in ErrorTexts : YouTubeInitFails(msg)
    \/ \E content \in YouTubeResponses : YouTubeSearch(content)
    \/ \E msg \in ErrorTexts : YouTubeSearchFails(msg)
    \/ ConvertSingle
    \/ \E msg \in ErrorTexts : ConvertSingleFails(msg)
    \/ NextRequest

Spec == Init /\ [][Next]_vars

(***************************************************************************)
(* calculateMatchScore called directly                                     *)
(***************************************************************************)
\* the characters of the argument strings: letters, the space that separates
\* words, the comma that separates artists and that normalize removes
Alphabet == {"a", "b", " ", ","}

\* the letters of " and ", the third separator of artists, with the other two
\* kinds of character
ReflexiveAlphabet == {"a", "n", "d", " ", ","}

\* the four arguments together have at most this many characters
MaxTotalLen == 5

\* the longest title and the longest artist string of a reflexive call
MaxTitleLen == 1
MaxArtistLen == 5

\* the strings of exactly n characters
StringsOfLen(alphabet, n) == [1..n -> alphabet]

\* the strings of at most n characters
StringsUpTo(alphabet, n) == UNION {StringsOfLen(alphabet, k) : k \in 0..n}

\* the state of a process that has served no request
Idle ==
    /\ build \in {"deployment", "server"}
    /\ pc = "idle"
    /\ link = <<>>
    /\ source = ""
    /\ cleanTitle = Undefined
    /\ cleanArtist = Undefined
    /\ searchQueries = <<>>
    /\ qi = 0
    /\ spotify = NoBest
    /\ youtube = NoBest
    /\ links = NoLinks
    /\ res = NoRes
    /\ sent = 0
    /\ trace = NoTrace
    /\ outcome = NoOutcome
    /\ console = <<>>
    /\ single = NoSingle
    /\ pending = {}

\* the title component of the build's scorer
trackComponent(b, trackName1, trackName2) ==
    trackScoreOf(normalize(trackName1), normalize(trackName2))

\* the artist component of the build's scorer
artistComponent(b, artistName1, artistName2) ==
    IF b = "deployment"
    THEN artistScoreOf(splitArtists(artistName1), splitArtists(artistName2))
    ELSE artistScoreSingle(normalize(artistName1), normalize(artistName2))

\* calculateMatchScore(args[1], args[2], args[3], args[4]) returns: the
\* returned score with the two components it was combined from
Call ==
    /\ args # <<>>
    /\ result = <<>>
    /\ result' = << [trackScore |-> trackComponent(build, args[1], args[3]),
                     artistScore |-> artistComponent(build, args[2], args[4]),
                     score |-> score(build, args[1], args[2], args[3], args[4])] >>
    /\ UNCHANGED <<pending, console, single, args, build, pc, link, source, cleanTitle, cleanArtist,
                   searchQueries, qi, spotify, youtube, links, res, sent, trace,
                   outcome>>

\* any four strings of at most MaxTotalLen characters together
InitScore ==
    /\ Idle
    /\ result = <<>>
    /\ \E l1, l2, l3, l4 \in 0..MaxTotalLen :
          /\ l1 + l2 + l3 + l4 <= MaxTotalLen
          /\ args \in StringsOfLen(Alphabet, l1) \X StringsOfLen(Alphabet, l2)
                      \X StringsOfLen(Alphabet, l3) \X StringsOfLen(Alphabet, l4)

NextScore == Call

SpecScore == InitScore /\ [][NextScore]_vars

\* a title and an artist string, each passed on both sides
InitReflexive ==
    /\ Idle
    /\ result = <<>>
    /\ \E t \in StringsUpTo(Alphabet, MaxTitleLen),
          a \in StringsUpTo(ReflexiveAlphabet, MaxArtistLen) :
          args = <<t, a, t, a>>

NextReflexive == Call

SpecReflexive == InitReflexive /\ [][NextReflexive]_vars

(***************************************************************************)
(* normalize and the artist split called directly                          *)
(***************************************************************************)
\* what a string is put together from: letters of both cases, a digit, the
\* underscore, punctuation, white space, a letter outside ASCII, the three
\* separators of artists and the word "and" without white space around it
Pieces ==
    { <<"a">>, <<"B">>, <<"1">>, <<"_">>, <<"!">>, <<" ">>, <<"\t">>,
      <<NonAsciiUpper>>, <<",">>, <<"&">>,
      <<" ", "a", "n", "d", " ">>, <<"a", "n", "d">> }

\* a string is at most this many pieces
MaxPieces == 4

\* the pieces one after the other
RECURSIVE concat(_)
concat(pieces) ==
    IF pieces = <<>> THEN <<>> ELSE Head(pieces) \o concat(Tail(pieces))

Texts == {concat(ps) : ps \in UNION {[1..k -> Pieces] : k \in 0..MaxPieces}}

\* one string
InitText ==
    /\ Idle
    /\ build = "deployment"
    /\ result = <<>>
    /\ \E str \in Texts : args = <<str>>

\* normalize(...) returns: on the string first, then on what it returned
Normalize ==
    /\ Len(args) = 1
    /\ Len(result) < 2
    /\ result # <<>> => result[1].op = "normalize"
    /\ result' = Append(result,
                        [op |-> "normalize",
                         out |-> normalize(IF result = <<>> THEN args[1]
                                           ELSE result[1].out)])
    /\ UNCHANGED <<pending, console, single, args, build, pc, link, source, cleanTitle, cleanArtist,
                   searchQueries, qi, spotify, youtube, links, res, sent, trace,
                   outcome>>

\* the artists of the string, as calculateMatchScore computes artists1
SplitArtists ==
    /\ Len(args) = 1
    /\ result = <<>>
    /\ result' = << [op |-> "split", out |-> splitArtists(args[1])] >>
    /\ UNCHANGED <<pending, console, single, args, build, pc, link, source, cleanTitle, cleanArtist,
                   searchQueries, qi, spotify, youtube, links, res, sent, trace,
                   outcome>>

NextText ==
    \/ Normalize
    \/ SplitArtists

SpecText == InitText /\ [][NextText]_vars

(***************************************************************************)
(* findLinks called directly, up to its first await                        *)
(***************************************************************************)
\* what a title or an artist is put together from
FieldPieces == { <<"a">>, <<" ">>, <<"(">>, <<")">>, <<"[">>, <<"]">> }

\* the title and the artist are at most this many pieces together
MaxFieldPieces == 5

FieldsOf(n) == {concat(ps) : ps \in [1..n -> FieldPieces]}

\* metadata = { title, artist }
InitQueries ==
    /\ Idle
    /\ result = <<>>
    /\ \E n1, n2 \in 0..MaxFieldPieces :
          /\ n1 + n2 <= MaxFieldPieces
          /\ args \in FieldsOf(n1) \X FieldsOf(n2)

\* findLinks({ title: args[1], artist: args[2] }) runs to its first await
FindLinks ==
    /\ pc = "idle"
    /\ Len(args) = 2
    /\ enterFindLinks([title |-> args[1], artist |-> args[2]])
    /\ UNCHANGED <<pending, console, single, args, result, build, link, source, qi, spotify, youtube, links,
                   res, sent, trace, outcome>>

NextQueries == FindLinks

SpecQueries == InitQueries /\ [][NextQueries]_vars

(***************************************************************************)
(* Two /convert requests in one server process                             *)
(*                                                                         *)
(* The locals of a request live in the closure of its handler call: `st`   *)
(* is the record of them.  The provider answers of a request are fixed by  *)
(* a script, so that the same request can be run alone.                    *)
(***************************************************************************)
\* the locals of a handler call that has just received `l`
startRequest(l) ==
    [pc |-> "idle", link |-> l, source |-> "", cleanTitle |-> Undefined,
     cleanArtist |-> Undefined, searchQueries |-> <<>>, qi |-> 0,
     spotify |-> NoBest, youtube |-> NoBest, links |-> NoLinks, res |-> NoRes]

\* the answer a script gives to the i-th search call: no result past its end
answerAt(answers, i) ==
    IF i <= Len(answers) THEN answers[i] ELSE [ok |-> TRUE, data |-> <<>>]

\* the running best a scoring loop starts an answer with
loopBest(best) ==
    [score |-> best.score, match |-> best.match, threw |-> FALSE,
     seen |-> best.score, first |-> best.match, tie |-> <<>>]

\* the handler call with the locals `st` runs from the await it is suspended
\* at to its next await, the awaited call answering as `script` says
continueRequest(b, st, script) ==
    LET error(status, message) ==
            [st EXCEPT !.pc = "done",
                       !.res = [status |-> status, error |-> message,
                                source |-> "", links |-> NoLinks]]
        enter(src, metadata) ==
            [st EXCEPT !.pc = "spotify_token",
                       !.source = src,
                       !.cleanTitle = cleanField(metadata.title),
                       !.cleanArtist = cleanField(metadata.artist),
                       !.searchQueries = buildQueries(b, cleanField(metadata.title),
                                                      cleanField(metadata.artist))]
        answer(best, found) ==
            [st EXCEPT !.pc = "done", !.qi = 0, !.youtube = best, !.links = found,
                       !.res = [status |-> 200, error |-> "", source |-> st.source,
                                links |-> IF st.source = "Spotify"
                                          THEN [found EXCEPT !.spotify = st.link]
                                          ELSE [found EXCEPT !.youtubeMusic = st.link]]]
        leave(best, found) ==
            [st EXCEPT !.pc = "youtube_init", !.qi = 0, !.spotify = best,
                       !.links = found]
    IN CASE st.pc = "idle" ->
              IF ~truthy(st.link) THEN error(400, LinkRequired)
              ELSE IF isSpotifyLink(st.link)
                   THEN IF matchTrackId(st.link) = Undefined
                        THEN error(500, Failed)
                        ELSE [st EXCEPT !.pc = "extract_token"]
                   ELSE IF isYouTubeLink(st.link)
                        THEN IF matchVideoId(st.link) = Undefined
                             THEN error(500, Failed)
                             ELSE [st EXCEPT !.pc = "extract_oembed"]
                        ELSE error(400, Unsupported)
         [] st.pc = "extract_token" ->
              IF script.token THEN [st EXCEPT !.pc = "extract_track"]
              ELSE error(500, Failed)
         [] st.pc = "extract_track" ->
              IF script.track.ok
              THEN enter("Spotify", spotifyMetadata(b, script.track.data))
              ELSE error(500, Failed)
         [] st.pc = "extract_oembed" ->
              IF script.oembed.ok
              THEN enter("YouTube Music",
                         youTubeMetadata(script.oembed.data, matchVideoId(st.link)))
              ELSE enter("YouTube Music", fallbackMetadata(matchVideoId(st.link)))
         [] st.pc = "spotify_token" ->
              IF script.auth
              THEN [st EXCEPT !.pc = "spotify_search", !.qi = 1, !.spotify = NoBest]
              ELSE leave(NoBest, st.links)
         [] st.pc = "spotify_search" ->
              LET a == answerAt(script.spotify, st.qi)
              IN IF ~a.ok THEN leave(st.spotify, st.links)
                 ELSE LET after == scoreSpotifyTracks(b, a.data, loopBest(st.spotify),
                                                      st.cleanTitle, st.cleanArtist)
                          best == [score |-> after.score, match |-> after.match]
                      IN IF after.threw THEN leave(best, st.links)
                         ELSE IF st.qi < Len(st.searchQueries)
                              THEN [st EXCEPT !.qi = st.qi + 1, !.spotify = best]
                              ELSE leave(best,
                                         IF best.match # <<>>
                                         THEN [st.links EXCEPT
                                                  !.spotify = best.match[1].url]
                                         ELSE st.links)
         [] st.pc = "youtube_init" ->
              IF script.init
              THEN [st EXCEPT !.pc = "youtube_search", !.qi = 1,
                              !.spotify = NoBest, !.youtube = NoBest]
              ELSE [answer(NoBest, st.links) EXCEPT !.spotify = NoBest]
         [] st.pc = "youtube_search" ->
              LET a == answerAt(script.youtube, st.qi)
              IN IF ~a.ok THEN answer(st.youtube, st.links)
                 ELSE LET after == scoreYouTubeItems(b, youTubeItems(a.data),
                                                     loopBest(st.youtube),
                                                     st.cleanTitle, st.cleanArtist)
                          best == [score |-> after.score, match |-> after.match]
                      IN IF st.qi < Len(youTubeQueries(b, st.searchQueries))
                         THEN [st EXCEPT !.qi = st.qi + 1, !.youtube = best]
                         ELSE answer(best,
                                     IF best.match # <<>>
                                     THEN [st.links EXCEPT !.youtubeMusic =
                                              youTubeMusicUrl(best.match[1].videoId)]
                                     ELSE st.links)
         [] OTHER -> st

\* the track of the Spotify catalogue with the url .../track/n
spotifyTrack(n) == CHOOSE t \in SpotifyCatalog : t.url[2] = n

\* the item of the YouTube Music catalogue with the videoId n
youTubeItem(n) == CHOOSE i \in YouTubeCatalog : i.videoId = <<n>>

ok(data) == [ok |-> TRUE, data |-> data]
throws == [ok |-> FALSE, data |-> <<>>]

\* what the upstream services answer one request with, call by call
Scripts ==
    { \* every call answers
      [token |-> TRUE,
       track |-> ok(CHOOSE d \in SpotifyTrackData : Len(d.artists) = 3),
       oembed |-> ok(CHOOSE d \in OEmbedData :
                        truthy(d.author_name) /\ ~includes(d.author_name, TopicSuffix)),
       auth |-> TRUE,
       spotify |-> <<ok(<<spotifyTrack("3"), spotifyTrack("1")>>),
                     ok(<<spotifyTrack("2")>>)>>,
       init |-> TRUE,
       youtube |-> <<ok(<<youTubeItem("2")>>), ok(<<youTubeItem("1")>>)>>],
      \* the oEmbed lookup and the second search call of each provider throw
      [token |-> TRUE,
       track |-> ok(CHOOSE d \in SpotifyTrackData : Len(d.artists) = 1),
       oembed |-> throws,
       auth |-> TRUE,
       spotify |-> <<ok(<<spotifyTrack("2")>>), throws>>,
       init |-> TRUE,
       youtube |-> <<ok(<<youTubeItem("1")>>), throws>>],
      \* neither provider can be authenticated
      [token |-> TRUE,
       track |-> ok(CHOOSE d \in SpotifyTrackData : Len(d.artists) = 3),
       oembed |-> ok(CHOOSE d \in OEmbedData : d.author_name = Undefined /\ truthy(d.title)),
       auth |-> FALSE,
       spotify |-> <<>>,
       init |-> FALSE,
       youtube |-> <<>>],
      \* the track lookup throws; a Spotify candidate without artists
      [token |-> TRUE,
       track |-> throws,
       oembed |-> ok(CHOOSE d \in OEmbedData :
                        truthy(d.author_name) /\ includes(d.author_name, TopicSuffix)),
       auth |-> TRUE,
       spotify |-> <<ok(<<spotifyTrack("1")>>), ok(<<spotifyTrack("5")>>)>>,
       init |-> TRUE,
       youtube |-> <<ok(<<>>), ok(<<youTubeItem("5"), youTubeItem("1")>>)>>] }

\* the links of the two requests
PairLinks ==
    { <<"https://open.", "spotify.com", "/", "track/", "t1">>,
      <<"https://music.", "youtube.com", "/watch?", "v=", "v9">>,
      <<"https://", "example.com", "/", "t1">> }

\* the two requests and what the process shares between them: args[2r-1] and
\* args[2r] are the link and the script of request r; result[r] holds the
\* locals of request r (st) beside those of the same request run alone (solo);
\* result[3] is the session of ytMusicApi and, as history, the request that
\* ran last
InitPair ==
    /\ Idle
    /\ \E l1 \in PairLinks, l2 \in PairLinks, s1 \in Scripts, s2 \in Scripts :
          /\ args = <<l1, s1, l2, s2>>
          /\ result = << [st |-> startRequest(l1), solo |-> startRequest(l1)],
                         [st |-> startRequest(l2), solo |-> startRequest(l2)],
                         [session |-> "none", last |-> 1] >>

\* variant: the running bests are module-level variables, so a request
\* resumes with the bests the request that ran last has left
resumeSharedBest(r) ==
    [result[r].st EXCEPT !.spotify = result[result[3].last].st.spotify,
                         !.youtube = result[result[3].last].st.youtube]

\* the locals the continuation of request r resumes with: those of its own
\* handler call
resume(r) == result[r].st

\* ytMusicApi after the step of a request: initalize() sets up its session
sessionAfter(st, script) ==
    IF st.pc = "youtube_init" /\ script.init THEN "ready" ELSE result[3].session

\* the event loop runs request r from the await it is suspended at to its next
\* await, whatever the other request is suspended at
Resume(r) ==
    /\ Len(args) = 4
    /\ result[r].st.pc # "done"
    /\ result' = [result EXCEPT
                     ![r] = [st |-> continueRequest(build, resume(r), args[2 * r]),
                             solo |-> continueRequest(build, result[r].solo, args[2 * r])],
                     ![3] = [session |-> sessionAfter(result[r].st, args[2 * r]),
                             last |-> r]]
    /\ UNCHANGED <<pending, console, single, args, build, pc, link, source, cleanTitle,
                   cleanArtist, searchQueries, qi, spotify, youtube, links, res, sent,
                   trace, outcome>>

NextPair == \E r \in {1, 2} : Resume(r)

SpecPair == InitPair /\ [][NextPair]_vars

(***************************************************************************)
(* Properties                                                              *)
(***************************************************************************)
Half == Frac(1, 2)

\* 0 <= s <= 1
InUnit(s) == FLeq(Zero, s) /\ FLeq(s, One)

\* <<1, 2, ..., n>>
FirstIndices(n) == [k \in 1..n |-> k]

SpotifyLeft == pc = "youtube_init"
Answered == pc = "done" /\ outcome.youtube # ""

spotifyBestScore ==
    spotifyScore(build, spotify.match[1], cleanTitle, cleanArtist)
youTubeBestScore ==
    youTubeScore(build, youtube.match[1], cleanTitle, cleanArtist)

\* C1: in the Spotify loop and in the YouTube Music loop the running best
\* match, whenever there is one, is a candidate whose score is strictly
\* greater than 0.5, and a link of findLinks comes from such a match only: a
\* candidate scoring 0.5 or less is never selected, not even as the highest
\* one seen.
C1_ThresholdStrict ==
    /\ spotify.match # <<>> =>
          /\ spotify.score = spotifyBestScore
          /\ FLess(Half, spotify.score)
    /\ youtube.match # <<>> =>
          /\ youtube.score = youTubeBestScore
          /\ FLess(Half, youtube.score)
    /\ (SpotifyLeft /\ links.spotify # Undefined) => spotify.match # <<>>
    /\ (Answered /\ links.youtubeMusic # Undefined) => youtube.match # <<>>

\* C1: a loop has completed, the highest score it has seen is exactly 0.5,
\* and nothing was selected.
C1_Witness ==
    /\ SpotifyLeft
    /\ outcome.spotify = "completed"
    /\ trace.seen = Half
    /\ spotify.match = <<>>
    /\ links.spotify = Undefined

\* C2: when a provider's loop has completed and some candidate of some
\* issued query scored above 0.5, the selected candidate's score is the
\* maximum over the candidates of all issued queries (trace.seen: every
\* Spotify track, the first five items of every YouTube Music answer), and
\* the link is that candidate's.
C2_GlobalBest ==
    /\ (SpotifyLeft /\ outcome.spotify = "completed" /\ FLess(Half, trace.seen)) =>
          /\ spotify.match # <<>>
          /\ spotify.score = trace.seen
          /\ links.spotify = spotify.match[1].url
    /\ (Answered /\ outcome.youtube = "completed" /\ FLess(Half, trace.seen)) =>
          /\ youtube.match # <<>>
          /\ youtube.score = trace.seen
          /\ links.youtubeMusic = youTubeMusicUrl(youtube.match[1].videoId)

\* C2: the Spotify loop has completed over all its queries with a best match
\* that is the maximum seen, above the threshold and short of a perfect score.
C2_Witness ==
    /\ SpotifyLeft
    /\ outcome.spotify = "completed"
    /\ Len(trace.issued) > 1
    /\ FLess(Half, trace.seen)
    /\ FLess(trace.seen, One)
    /\ spotify.score = trace.seen

C4_TotalFailureIsAbsent ==
    (pc = "done" /\ (outcome.spotify \in {"auth", "search"}
                     \/ outcome.youtube \in {"auth", "search"})) =>
        /\ res.status = 200
        /\ res.error = ""
        /\ sent = 1
        /\ outcome.spotify \in {"auth", "search"} => links.spotify = Undefined
        /\ outcome.youtube \in {"auth", "search"} => links.youtubeMusic = Undefined
        /\ res.links = IF source = "Spotify"
                       THEN [links EXCEPT !.spotify = link]
                       ELSE [links EXCEPT !.youtubeMusic = link]

\* C4: the search failed for Spotify and the only YouTube Music search call
\* made failed too; the answer is 200 with no resolved link.
C4_Witness ==
    /\ pc = "done"
    /\ outcome.spotify = "search"
    /\ outcome.youtube = "search"
    /\ trace.issued = <<1>>
    /\ res.status = 200
    /\ links = NoLinks

\* C5: when a provider's loop has completed and no scored candidate exceeded
\* 0.5 (none at all when every answer was empty), the provider yields no
\* link, nothing is raised, and /convert answers 200.
C5_NoMatchIsAbsent ==
    /\ (SpotifyLeft /\ outcome.spotify = "completed" /\ FLeq(trace.seen, Half)) =>
          /\ links.spotify = Undefined
          /\ sent = 0
    /\ (Answered /\ outcome.youtube = "completed" /\ FLeq(trace.seen, Half)) =>
          /\ links.youtubeMusic = Undefined
          /\ res.status = 200
          /\ res.error = ""
          /\ source = "Spotify" => res.links.youtubeMusic = Undefined
    /\ (Answered /\ outcome.spotify = "completed") => res.status = 200

\* C5: a Spotify link was converted, every YouTube Music query was answered
\* and nothing scored at all; the answer is 200 without a YouTube Music link.
C5_Witness ==
    /\ Answered
    /\ source = "Spotify"
    /\ outcome.youtube = "completed"
    /\ trace.seen = Zero
    /\ res.status = 200
    /\ res.links.youtubeMusic = Undefined

\* C6 as stated: scoring a candidate never ends a provider's resolution: a
\* malformed candidate is passed over and the loops go on, for Spotify and
\* for YouTube Music.
C6_MalformedSkipped ==
    /\ outcome.spotify # "candidate"
    /\ outcome.youtube # "candidate"

\* C7 as stated: a provider's loop that completed has issued every generated
\* query, in order.
C7_EveryQueryIssued ==
    /\ (SpotifyLeft /\ outcome.spotify = "completed") =>
          trace.issued = FirstIndices(Len(searchQueries))
    /\ (Answered /\ outcome.youtube = "completed") =>
          trace.issued = FirstIndices(Len(searchQueries))

\* C7: Spotify is issued every generated query, in order; YouTube Music is
\* issued only the first three of the six generated queries (the first two of
\* four in the server.js build), in order, and its loop completes there.
C7_YouTubePrefix ==
    /\ searchQueries # <<>> =>
          Len(searchQueries) = IF build = "deployment" THEN 6 ELSE 4
    /\ (SpotifyLeft /\ outcome.spotify = "completed") =>
          trace.issued = FirstIndices(Len(searchQueries))
    /\ (Answered /\ outcome.youtube = "completed") =>
          trace.issued = FirstIndices(IF build = "deployment" THEN 3 ELSE 2)
    /\ pc = "spotify_search" =>
          (qi \in 1..Len(searchQueries) /\ trace.issued = FirstIndices(qi - 1))
    /\ pc = "youtube_search" =>
          (qi \in 1..Len(searchQueries) /\ trace.issued = FirstIndices(qi - 1))

\* C7: the YouTube Music loop of the DEPLOYMENT.md build completed after the
\* first three of six queries.
C7_Witness ==
    /\ Answered
    /\ build = "deployment"
    /\ outcome.youtube = "completed"
    /\ trace.issued = <<1, 2, 3>>
    /\ Len(searchQueries) = 6

\* C8 as stated: the score of a selected candidate with several artists is
\* the scorer's result for all of its artist names joined with ", ", for
\* Spotify tracks as for YouTube Music items.
C8_ArtistsJoined ==
    /\ (spotify.match # <<>> /\ Len(spotify.match[1].artists) > 1) =>
          spotify.score =
              score(build, spotify.match[1].name,
                    join(spotify.match[1].artists, <<",", " ">>),
                    cleanTitle, cleanArtist)
    /\ (youtube.match # <<>> /\ youtube.match[1].artist.kind = "array"
           /\ Len(youtube.match[1].artist.names) > 1) =>
          youtube.score =
              score(build, youtube.match[1].name,
                    join(youtube.match[1].artist.names, <<",", " ">>),
                    cleanTitle, cleanArtist)

\* a JavaScript number that is not NaN, as a fraction
IsNumber(s) == s[1] \in Nat /\ s[2] \in Nat \ {0}

\* C9: for every four strings calculateMatchScore returns a number, and the
\* score it returns and the title and artist components it combines lie in
\* [0, 1].
C9_ScoreInUnit ==
    result # <<>> =>
        /\ IsNumber(result[1].score) /\ InUnit(result[1].score)
        /\ IsNumber(result[1].trackScore) /\ InUnit(result[1].trackScore)
        /\ IsNumber(result[1].artistScore) /\ InUnit(result[1].artistScore)
        /\ result[1].score = combine(result[1].trackScore, result[1].artistScore)

\* C9: the scorer has returned for an empty title and an artist string that
\* normalizes to the empty string and names no artist.
C9_Witness ==
    /\ result # <<>>
    /\ args[1] = <<>>
    /\ args[2] = <<",">>
    /\ splitArtists(args[2]) = <<>>
    /\ normalize(args[2]) = <<>>
    /\ InUnit(result[1].score)

\* C10 as stated: a call with the same title and the same artist string on
\* both sides, both non-empty after normalization, returns 1.
C10_Reflexive ==
    (/\ result # <<>>
     /\ args[1] = args[3]
     /\ args[2] = args[4]
     /\ normalize(args[1]) # <<>>
     /\ normalize(args[2]) # <<>>) => result[1].score = One

Normalized == result # <<>> /\ result[1].op = "normalize"
Split == result # <<>> /\ result[1].op = "split"

\* the characters of a string
Chars(str) == {str[i] : i \in 1..Len(str)}

\* a-z, 0-9 and the space
PlainChars == {LowerSeq[i] : i \in 1..Len(LowerSeq)} \cup DigitChars \cup {" "}

\* C11: normalize applied to what normalize returned returns the same string.
C11_NormalizeIdempotent ==
    (Normalized /\ Len(result) = 2) => result[2].out = result[1].out

\* C11: normalize has been applied twice to a string that it changes: the
\* string has an upper-case letter, punctuation and white space at an end.
C11_Witness ==
    /\ Normalized
    /\ Len(result) = 2
    /\ result[1].out # args[1]
    /\ result[1].out # <<>>
    /\ "B" \in Chars(args[1])
    /\ "!" \in Chars(args[1])
    /\ IsSpaceChar(args[1][1])

hasSeparator(str) ==
    \/ "," \in Chars(str)
    \/ "&" \in Chars(str)
    \/ \E i \in 1..(Len(str) - 4) :
          /\ IsSpaceChar(str[i])
          /\ SubSeq(str, i + 1, i + 3) = <<"a", "n", "d">>
          /\ IsSpaceChar(str[i + 4])

\* the fragments are what normalize returns and return, none is empty and
\* none has a separator character; a string without comma and ampersand and
\* without the letters "and" has its word characters, in order, in them
wellSplit ==
    /\ \A k \in 1..Len(result[1].out) :
          /\ result[1].out[k] # <<>>
          /\ normalize(result[1].out[k]) = result[1].out[k]
          /\ Chars(result[1].out[k]) \cap {",", "&"} = {}
    /\ ~includes(args[1], <<"a", "n", "d">>) =>
          SelectSeq(concat(result[1].out), IsWordChar)
              = toLowerCase(SelectSeq(args[1], IsWordChar))

\* C13 as stated: the fragments are normalized and in input order, none is
\* empty, and a string without separator yields one fragment.
C13_SplitsOrOne ==
    Split =>
        /\ wellSplit
        /\ ~hasSeparator(args[1]) => Len(result[1].out) = 1

\* C13: the fragments are normalized and in input order, none is empty, and a
\* string without separator yields the one fragment normalize(s) when that is
\* not empty and no fragment when it is.
C13_SplitsOrOneNonEmpty ==
    Split =>
        /\ wellSplit
        /\ ~hasSeparator(args[1]) =>
              result[1].out = IF normalize(args[1]) = <<>> THEN <<>>
                              ELSE <<normalize(args[1])>>

\* C13: "B and a" has been split into "b" and "a".
C13_Witness ==
    /\ Split
    /\ args[1] = <<"B", " ", "a", "n", "d", " ", "a">>
    /\ result[1].out = << <<"b">>, <<"a">> >>

\* whether sub is str with some characters left out
RECURSIVE isSubsequence(_, _)
isSubsequence(sub, str) ==
    IF sub = <<>> THEN TRUE
    ELSE IF str = <<>> THEN FALSE
    ELSE IF Head(sub) = Head(str) THEN isSubsequence(Tail(sub), Tail(str))
    ELSE isSubsequence(sub, Tail(str))

\* str is field without its delimited substrings and trimmed: nothing is
\* added, no opening delimiter is left with its closing one after it, no
\* white space is left at an end, and a field without delimiters is only
\* trimmed
cleaned(str, field) ==
    /\ isSubsequence(str, field)
    /\ \A i, j \in 1..Len(str) :
          i < j => /\ ~(str[i] = "(" /\ str[j] = ")")
                   /\ ~(str[i] = "[" /\ str[j] = "]")
    /\ str # <<>> => (~IsSpaceChar(str[1]) /\ ~IsSpaceChar(str[Len(str)]))
    /\ Chars(field) \cap {"(", ")", "[", "]"} = {} => str = trim(field)
    /\ Len(SelectSeq(str, LAMBDA c : c \in {"(", "["}))
          <= Len(SelectSeq(field, LAMBDA c : c \in {"(", "["}))

ArtistTag == <<" ", "a", "r", "t", "i", "s", "t", ":">>

\* C14: the queries start with "{title} {artist}", "{artist} {title}",
\* "{title}" and "{title} artist:{artist}", in this order, over the title
\* and the artist without their parenthesized and bracketed substrings and
\* trimmed; the two combined forms are the first two, so the capped list of
\* the YouTube Music loop, as every prefix of two or more, has both.
C14_QueryOrder ==
    (pc = "spotify_token" /\ Len(args) = 2) =>
        /\ cleaned(cleanTitle, args[1])
        /\ cleaned(cleanArtist, args[2])
        /\ Len(searchQueries) >= 4
        /\ searchQueries[1] = cleanTitle \o <<" ">> \o cleanArtist
        /\ searchQueries[2] = cleanArtist \o <<" ">> \o cleanTitle
        /\ searchQueries[3] = cleanTitle
        /\ searchQueries[4] = cleanTitle \o ArtistTag \o cleanArtist
        /\ \A n \in 2..Len(searchQueries) :
              /\ slice0(searchQueries, n)[1] = cleanTitle \o <<" ">> \o cleanArtist
              /\ slice0(searchQueries, n)[2] = cleanArtist \o <<" ">> \o cleanTitle
        /\ Len(youTubeQueries(build, searchQueries)) >= 2
        /\ SubSeq(youTubeQueries(build, searchQueries), 1, 2)
              = SubSeq(searchQueries, 1, 2)

\* C14: the queries of the title "a(a)" and the artist "a" have been built:
\* the title is cleaned to "a".
C14_Witness ==
    /\ pc = "spotify_token"
    /\ args = << <<"a", "(", "a", ")">>, <<"a">> >>
    /\ cleanTitle = <<"a">>
    /\ cleanArtist = <<"a">>
    /\ searchQueries[1] = <<"a", " ", "a">>
    /\ searchQueries[3] = <<"a">>

\* C15: a 200 answer of /convert has the request's link under the key of the
\* source platform, spotify for a Spotify link and youtubeMusic for a YouTube
\* link, whatever findLinks returned for that key.
C15_SourceKeyIsInput ==
    (pc = "done" /\ res.status = 200) =>
        /\ res.source = source
        /\ source \in {"Spotify", "YouTube Music"}
        /\ source = "Spotify" =>
              (isSpotifyLink(link) /\ res.links.spotify = link)
        /\ source = "YouTube Music" =>
              (isYouTubeLink(link) /\ res.links.youtubeMusic = link)

\* C15: a Spotify link was converted and the Spotify search found a track of
\* its own; the answer has the request's link, not the one found.
C15_Witness ==
    /\ pc = "done"
    /\ res.status = 200
    /\ source = "Spotify"
    /\ links.spotify # Undefined
    /\ links.spotify # link
    /\ res.links.spotify = link

\* a link of a supported pattern: a spotify.com link with track/<id>, or a
\* youtube.com link with v=<id>
supported(l) ==
    \/ isSpotifyLink(l) /\ matchTrackId(l) # Undefined
    \/ ~isSpotifyLink(l) /\ isYouTubeLink(l) /\ matchVideoId(l) # Undefined

\* C16 as stated: a link of no supported pattern is answered with a 4xx
\* status, be it of an unknown provider, a spotify.com link without
\* track/<id> or a youtube.com link without v=<id>.
C16_UnsupportedIsClientError ==
    (pc = "done" /\ sent = 1 /\ truthy(link) /\ ~supported(link)) =>
        res.status \in 400..499

\* the text logged at a place of the code, by the request in progress
loggedAt(at) == {console[i].text : i \in {j \in 1..Len(console) : console[j].at = at}}

\* the track lookup of getSpotifyTrackDetails (or its token call) failed
spotifyLookupFailed == loggedAt("convert") \cap ErrorTexts # {}

\* the oEmbed lookup of getYouTubeMusicTrackDetails failed
oEmbedLookupFailed == loggedAt("oembed") # {}

\* C17 (as stated): once the extractor's upstream call has failed, for either
\* source platform, the answer of /convert is a 5xx and never a success.
C17_ExtractorFailureIsServerError ==
    ((spotifyLookupFailed \/ oEmbedLookupFailed) /\ sent = 1)
        => res.status \in 500..599

\* C17 (amended): a failed Spotify track lookup is answered 500 with the coarse
\* message; a failed YouTube oEmbed lookup is not an error: the conversion goes
\* on with the placeholder metadata and is answered 200.
C17_SpotifyFailsYouTubeFallsBack ==
    /\ spotifyLookupFailed
           => /\ pc = "done" /\ sent = 1
              /\ res.status = 500 /\ res.error = Failed
    /\ oEmbedLookupFailed
           => /\ source = "YouTube Music"
              /\ cleanTitle = cleanField(fallbackMetadata(matchVideoId(link)).title)
              /\ cleanArtist = cleanField(fallbackMetadata(matchVideoId(link)).artist)
              /\ sent = 1 => res.status = 200

C17_Witness ==
    /\ oEmbedLookupFailed
    /\ pc = "done" /\ sent = 1
    /\ res.status = 200

\* where the request in progress has logged an error, without the text
places == {console[i].at : i \in 1..Len(console)}

\* every error text the request in progress has logged
loggedTexts == {console[i].text : i \in 1..Len(console)}

\* the answer of /convert as a function of the link, of what the providers
\* found and of where an error was caught: the text of the error is no input
coarseAnswer ==
    IF ~truthy(link) THEN [status |-> 400, error |-> LinkRequired,
                           source |-> "", links |-> NoLinks]
    ELSE IF "convert" \in places
         THEN [status |-> 500, error |-> Failed, source |-> "", links |-> NoLinks]
         ELSE IF ~supported(link)
              THEN [status |-> 400, error |-> Unsupported, source |-> "",
                    links |-> NoLinks]
              ELSE [status |-> 200, error |-> "", source |-> source,
                    links |-> IF source = "Spotify"
                              THEN [links EXCEPT !.spotify = link]
                              ELSE [links EXCEPT !.youtubeMusic = link]]

\* the answer of /convert-single as a function of the answer of /convert
coarseSingle ==
    IF sent = 0 THEN [status |-> 500, body |-> <<Failed>>]
    ELSE IF res.status # 200 THEN [status |-> res.status, body |-> <<res.error>>]
         ELSE IF source = "Spotify" /\ truthy(links.youtubeMusic)
              THEN [status |-> 200, body |-> links.youtubeMusic]
              ELSE IF source = "YouTube Music" /\ truthy(links.spotify)
                   THEN [status |-> 200, body |-> links.spotify]
                   ELSE [status |-> 404, body |-> <<NoAlternative>>]

\* C18: no answer of /convert or /convert-single carries the text of an error
\* raised by a provider or upstream call, and status and body are determined
\* by the request, the providers' findings and the place of the failure alone:
\* two runs differing only in the error text answer the same; the text is in
\* the console log only.
C18_NoErrorTextInResponse ==
    /\ sent = 1 =>
           /\ res = coarseAnswer
           /\ res.error \notin ErrorTexts \cup {TypeErrorText} \cup loggedTexts
    /\ single # NoSingle =>
           /\ single = coarseSingle
           /\ \A t \in ErrorTexts \cup {TypeErrorText} \cup loggedTexts :
                  single.body # <<t>>
    /\ sent \in {0, 1}

\* a provider call has failed with some text, and both operations have answered
C18_Witness ==
    /\ loggedTexts \cap ErrorTexts # {}
    /\ "convert" \in places
    /\ sent = 1 /\ res.status = 500
    /\ single = [status |-> 500, body |-> <<Failed>>]

\* a provider block is running or has run to its end
spotifyRunning == pc = "spotify_search" \/ (SpotifyLeft /\ outcome.spotify = "completed")
youTubeRunning == pc = "youtube_search" \/ (Answered /\ outcome.youtube = "completed")

\* C19: ties keep the first-seen candidate. Whenever a provider's loop holds a
\* best match, during the loop and at its end, that match is the first
\* candidate, in (query, result position) order, that reached the highest
\* score computed so far: a later candidate of equal score has not replaced it.
C19_TiesKeepFirst ==
    /\ (spotifyRunning /\ spotify.match # <<>>) =>
           /\ spotify.match = trace.first
           /\ spotify.score = trace.seen
    /\ (youTubeRunning /\ youtube.match # <<>>) =>
           /\ youtube.match = trace.first
           /\ youtube.score = trace.seen

\* the Spotify loop has ended with a match above 0.5 that a later, different
\* candidate has equalled
C19_Witness ==
    /\ SpotifyLeft /\ outcome.spotify = "completed"
    /\ FLess(Half, trace.seen)
    /\ trace.tie # <<>>
    /\ trace.tie # trace.first
    /\ spotify.match = trace.first

\* C20: within one resolution the provider search calls are sequential. At most
\* one call is awaited at any time; while a loop is at its query qi the awaited
\* call is the one of that provider for that query, and the calls of the
\* queries 1..qi-1, and no other, have returned and been scored, in order;
\* outside the loops no call is awaited.
C20_SequentialCalls ==
    /\ Cardinality(pending) <= 1
    /\ pc = "spotify_search" =>
           /\ pending = {call("spotify", qi)}
           /\ trace.issued = FirstIndices(qi - 1)
    /\ pc = "youtube_search" =>
           /\ pending = {call("youtube", qi)}
           /\ trace.issued = FirstIndices(qi - 1)
    /\ pc \notin {"spotify_search", "youtube_search"} => pending = {}

\* the third Spotify call is awaited after the first two have been scored
C20_Witness ==
    /\ pc = "spotify_search"
    /\ qi = 3
    /\ pending = {call("spotify", 3)}
    /\ trace.issued = <<1, 2>>

\* a search call of the running block is awaited or has returned
searched == pending # {} \/ trace.issued # <<>>

\* C21: within one resolution each provider's authentication or session step
\* is performed once and has completed before that provider's first search
\* call; when it fails, no search call is issued to that provider.
C21_AuthOnceBeforeSearch ==
    /\ Len(trace.auth) <= 1
    /\ pc \in {"spotify_search", "youtube_search"} => trace.auth = <<"ok">>
    /\ searched => trace.auth = <<"ok">>
    /\ trace.auth = <<"failed">> =>
           /\ ~searched
           /\ pc \in {"youtube_init", "done"}
    /\ (SpotifyLeft /\ outcome.spotify = "auth") => trace.auth = <<"failed">>
    /\ (Answered /\ outcome.youtube = "auth") => trace.auth = <<"failed">>

\* the token was acquired and the first two Spotify calls have returned
C21_Witness ==
    /\ pc = "spotify_search"
    /\ trace.auth = <<"ok">>
    /\ trace.issued = <<1, 2>>

inSpotifyBlock == pc \in {"spotify_token", "spotify_search"}
inYouTubeBlock == pc \in {"youtube_init", "youtube_search"}

\* the link the YouTube Music block resolves from its own history alone
youTubeLinkOf(history, how) ==
    IF how = "completed" /\ FLess(Half, history.seen)
    THEN youTubeMusicUrl(history.first[1].videoId)
    ELSE Undefined

\* C23: the target platforms are resolved independently. No step of the
\* Spotify block touches the YouTube Music best or link; no step of the
\* YouTube Music block touches the Spotify link; the YouTube Music loop starts
\* from no best whatever the Spotify block did, and the link it resolves is
\* determined by the candidates of its own answers.
C23_PlatformsIndependent ==
    [][ /\ inSpotifyBlock =>
              /\ youtube' = youtube
              /\ links'.youtubeMusic = links.youtubeMusic
        /\ inYouTubeBlock => links'.spotify = links.spotify
        /\ (pc = "youtube_init" /\ pc' = "youtube_search") => youtube' = NoBest
        /\ (inYouTubeBlock /\ pc' = "done") =>
              links'.youtubeMusic = youTubeLinkOf(trace', outcome'.youtube)
      ]_vars

\* the Spotify block failed at a search call, found nothing or found a track,
\* and YouTube Music resolved a link
C23_Witness ==
    /\ Answered
    /\ outcome.spotify = "search"
    /\ outcome.youtube = "completed"
    /\ truthy(links.youtubeMusic)
    /\ ~truthy(links.spotify)

\* the set of distinct names of an artist array
namesOf(artists) == {artists[k] : k \in 1..Len(artists)}

\* the words of the names of a set, the names taken in any one order
RECURSIVE tokensOf(_)
tokensOf(names) ==
    IF names = {} THEN <<>>
    ELSE LET name == CHOOSE n \in names : TRUE
         IN splitWords(name) \o tokensOf(names \ {name})

\* two names of which one contains the other
contained(a1, a2) == includes(a1, a2) \/ includes(a2, a1)

\* the artist component as stated, over two sets of distinct names
artistScoreOverSets(set1, set2) ==
    LET exact == Cardinality(set1 \cap set2)
        partial == Cardinality({a1 \in set1 : \E a2 \in set2 : contained(a1, a2)})
        most == Max(Cardinality(set1), Cardinality(set2))
    IN IF exact > 0
       THEN FMin(One, FMul(Frac(exact, most), Frac(6, 5)))
       ELSE IF partial > 0
            THEN FMin(Frac(4, 5), FMul(Frac(partial, most), Frac(4, 5)))
            ELSE IF set1 = {} \/ set2 = {} THEN Zero
                 ELSE FMul(Frac(Cardinality({k \in 1..Len(tokensOf(set1)) :
                                               arrayIncludes(tokensOf(set2),
                                                             tokensOf(set1)[k])}),
                                Max(Len(tokensOf(set1)), Len(tokensOf(set2)))),
                           Frac(3, 5))

\* C24 (as stated): the artist component of the multi-artist scorer is the
\* stated three-branch formula over the two sets of distinct artist names; it
\* is checked where both artist strings name at least one artist.
C24_ArtistScoreOverSets ==
    (/\ result # <<>>
     /\ build = "deployment"
     /\ splitArtists(args[2]) # <<>>
     /\ splitArtists(args[4]) # <<>>)
        => /\ FLeq(result[1].artistScore,
                   artistScoreOverSets(namesOf(splitArtists(args[2])),
                                       namesOf(splitArtists(args[4]))))
           /\ FLeq(artistScoreOverSets(namesOf(splitArtists(args[2])),
                                       namesOf(splitArtists(args[4]))),
                   result[1].artistScore)

\* the first title of the call contains the second after normalization, and
\* both artist strings are the same
containmentCall ==
    /\ result # <<>>
    /\ args[2] = args[4]
    /\ includes(normalize(args[1]), normalize(args[3]))

\* C25: the score is symmetric in the containment branch. When normalized A
\* contains normalized B, calculateMatchScore(A, a, B, a) is equal to
\* calculateMatchScore(B, a, A, a), for either build's scorer.
C25_ContainmentSymmetric ==
    containmentCall =>
        /\ result[1].score = score(build, args[3], args[4], args[1], args[2])
        /\ result[1].trackScore = trackComponent(build, args[3], args[1])

\* a title that properly contains the other one, with an artist
C25_Witness ==
    /\ containmentCall
    /\ normalize(args[3]) # <<>>
    /\ normalize(args[1]) # normalize(args[3])
    /\ splitArtists(args[2]) # <<>>
    /\ result[1].trackScore = Frac(4, 5)

\* a running best is consistent: no match exactly with the score 0, and a
\* match with its own score, which is above 0.5
consistentBest(best, ownScore) ==
    /\ best.match = <<>> <=> best.score = Zero
    /\ best.match # <<>> =>
           /\ FLess(Half, best.score)
           /\ best.score = ownScore

\* C26: the running-best invariant of each resolver loop. Wherever a loop is
\* suspended and where it ends, the best match is absent exactly when the best
\* score is 0; a best match has the best score as its own score, above 0.5;
\* and no step of a loop lowers the best score.
C26_RunningBest ==
    [][ /\ consistentBest(spotify,
                          IF spotify.match = <<>> THEN Zero
                          ELSE spotifyScore(build, spotify.match[1],
                                            cleanTitle, cleanArtist))
        /\ consistentBest(youtube,
                          IF youtube.match = <<>> THEN Zero
                          ELSE youTubeScore(build, youtube.match[1],
                                            cleanTitle, cleanArtist))
        /\ pc = "spotify_search" => FLeq(spotify.score, spotify'.score)
        /\ pc = "youtube_search" => FLeq(youtube.score, youtube'.score)
      ]_vars

\* the Spotify loop is at its third query with a best match it found earlier
C26_Witness ==
    /\ pc = "spotify_search"
    /\ qi = 3
    /\ spotify.match # <<>>
    /\ FLess(Half, spotify.score)
    /\ FLess(spotify.score, One)

\* the internal call of /convert-single has failed without reaching /convert
notReached == loggedAt("convert-single") \cap ErrorTexts # {}

\* C27: every /convert request is answered exactly once. While the handler is
\* suspended it has sent nothing; when it has ended it has sent one response,
\* of status 400, 500 or 200 on the paths of a missing link, an unsupported
\* provider, an exception and a success; it never sends a second one.
C27_AnsweredOnce ==
    /\ sent \in {0, 1}
    /\ pc \notin {"idle", "done"} => sent = 0
    /\ sent = 1 => pc = "done"
    /\ (pc = "done" /\ ~notReached) =>
           /\ sent = 1
           /\ res.status \in {200, 400, 500}
           /\ ~truthy(link) => res.status = 400
           /\ (truthy(link) /\ ~isSpotifyLink(link) /\ ~isYouTubeLink(link))
                  => res.status = 400
           /\ "convert" \in places => res.status = 500
           /\ (supported(link) /\ "convert" \notin places) => res.status = 200

\* the handler has ended through its catch after the extractor threw
C27_Witness ==
    /\ pc = "done"
    /\ sent = 1
    /\ supported(link)
    /\ "convert" \in places
    /\ res.status = 500

\* what findLinks resolved for the platform other than the source
resolvedOther == IF source = "Spotify" THEN links.youtubeMusic ELSE links.spotify

\* the first token of a link of the platform other than the source
otherPrefix ==
    IF source = "Spotify" THEN "https://music.youtube.com/watch?v="
    ELSE "https://open.spotify.com/track/"

\* C28: /convert-single returns only a link of the platform other than the
\* source. After a successful inner /convert it answers 200 with the link
\* resolved for the other platform when there is one and 404 when there is
\* none, never with the input link; an error status of the inner /convert is
\* forwarded.
C28_OnlyTheOtherPlatform ==
    (single # NoSingle /\ sent = 1) =>
        /\ res.status = 200 =>
               IF truthy(resolvedOther)
               THEN /\ single = [status |-> 200, body |-> resolvedOther]
                    /\ single.body # link
                    /\ single.body[1] = otherPrefix
               ELSE single = [status |-> 404, body |-> <<NoAlternative>>]
        /\ res.status # 200 =>
               /\ single.status = res.status
               /\ single.status \in {400, 500}

\* a YouTube Music link was converted and the Spotify link is the answer
C28_Witness ==
    /\ single.status = 200
    /\ sent = 1
    /\ source = "YouTube Music"
    /\ single.body = links.spotify
    /\ link # single.body

====
